---- MODULE Spec2Model ----
(***************************************************************************)
(* The extraction-sanitization pipeline of bridebuddyv2                    *)
(* (buddy-core/structured-data/wedding_extractors.js, held in              *)
(* src/buddy-core/frontend/session.js, and the inline copy of the older    *)
(* api/chat handler held in src/unnamed/part_002).                         *)
(*                                                                         *)
(* Text is a sequence of one-character strings, so that trim, toLowerCase, *)
(* the regular expressions and the number parsers are computed on the      *)
(* characters as the JavaScript computes them.  A JavaScript value is a    *)
(* record [t, s, n, b]: t is its typeof-like tag, s its characters (a      *)
(* string), n its number in TENTHS (so 12.5 is n = 125), b its boolean.    *)
(***************************************************************************)
EXTENDS Integers, Sequences, FiniteSets, TLC

VARIABLES
  legacy,      \* TRUE: the call runs the inline copy of src/unnamed/part_002
  input,       \* the argument rawExtractedDataText of processClaudePayload
  pc,          \* position inside processClaudePayload
  parsed,      \* the value JSON.parse returned
  parserCalls, \* how many times JSON.parse was invoked
  idx,         \* forEach index / Object.entries position of the running sanitizer
  seen,        \* the running sanitizer's Set of identity keys
  acc,         \* the running sanitizer's sanitized list / aggregated Map
  warn,        \* the running sanitizer's warnings list
  parts,       \* the {sanitized, warnings} pairs of the sanitizers that returned
  result,      \* the result object of processClaudePayload
  suspended,   \* a second invocation of processClaudePayload that is not running
  completed,   \* the (envelope, result) pairs of the invocations that returned
  db,          \* the tables of the wedding the chat handler writes
  handlers,    \* the invocations of the chat handler: position and locals
  applied,     \* per budget category, the spent amounts the handler has applied
  requestCounts, \* the Map of the rate limiter
  now,         \* Date.now()
  returned,    \* what the last call of checkRateLimit returned
  window       \* the call that opened the current window, and the calls since

pipelineVars ==
  <<legacy, input, pc, parsed, parserCalls, idx, seen, acc, warn, parts, result>>
sessionVars == <<suspended, completed>>
chatVars == <<db, handlers, applied>>
limiterVars == <<requestCounts, now, returned, window>>

vars == <<pipelineVars, sessionVars, chatVars, limiterVars>>

\* the parts of the program a specification leaves out stay as they are here
NoFrame == [pc |-> "none"]
NoSessions == suspended = NoFrame /\ completed = <<>>
NoChat == db = <<>> /\ handlers = <<>> /\ applied = <<>>
NoLimiter == requestCounts = <<>> /\ now = 0 /\ returned = <<>> /\ window = <<>>

-----------------------------------------------------------------------------
(* JavaScript values *)

Undefined == [t |-> "undefined", s |-> <<>>, n |-> 0, b |-> FALSE]
Null == [t |-> "null", s |-> <<>>, n |-> 0, b |-> FALSE]
Str(chars) == [t |-> "string", s |-> chars, n |-> 0, b |-> FALSE]
NumTenths(k) == [t |-> "number", s |-> <<>>, n |-> k, b |-> FALSE]
Num(k) == NumTenths(10 * k)
Bool(x) == [t |-> "boolean", s |-> <<>>, n |-> 0, b |-> x]
\* an object or array whose content nothing reads ({} or [])
Obj == [t |-> "object", s |-> <<>>, n |-> 0, b |-> FALSE]
\* the completion of a call that threw a TypeError
Thrown == [t |-> "TypeError", s |-> <<>>, n |-> 0, b |-> FALSE]

IsNullish(v) == v.t \in {"undefined", "null"}

\* ToBoolean: undefined, null, false, 0 and "" are falsy
Truthy(v) ==
  CASE v.t \in {"undefined", "null"} -> FALSE
    [] v.t = "boolean" -> v.b
    [] v.t = "number" -> v.n # 0
    [] v.t = "string" -> v.s # <<>>
    [] OTHER -> TRUE

-----------------------------------------------------------------------------
(* Characters and String.prototype methods *)

UPPER == <<"A","B","C","D","E","F","G","H","I","J","K","L","M",
           "N","O","P","Q","R","S","T","U","V","W","X","Y","Z">>
LOWER == <<"a","b","c","d","e","f","g","h","i","j","k","l","m",
           "n","o","p","q","r","s","t","u","v","w","x","y","z">>
DIGITS == <<"0","1","2","3","4","5","6","7","8","9">>

IsDigit(c) == \E i \in 1..10 : DIGITS[i] = c
DigitVal(c) == (CHOOSE i \in 1..10 : DIGITS[i] = c) - 1
IsSpace(c) == c \in {" ", "\t", "\n"}
\* \w of a regular expression
IsWordChar(c) ==
  \/ IsDigit(c)
  \/ c = "_"
  \/ \E i \in 1..26 : UPPER[i] = c \/ LOWER[i] = c

LowerChar(c) ==
  IF \E i \in 1..26 : UPPER[i] = c
    THEN LOWER[CHOOSE i \in 1..26 : UPPER[i] = c]
    ELSE c

toLowerCase(s) == [i \in 1..Len(s) |-> LowerChar(s[i])]

RECURSIVE TrimStart(_)
TrimStart(s) ==
  IF s # <<>> /\ IsSpace(Head(s)) THEN TrimStart(Tail(s)) ELSE s

RECURSIVE TrimEnd(_)
TrimEnd(s) ==
  IF s # <<>> /\ IsSpace(s[Len(s)]) THEN TrimEnd(SubSeq(s, 1, Len(s) - 1)) ELSE s

trim(s) == TrimEnd(TrimStart(s))


\* the number a run of digits denotes
RECURSIVE DigitsToInt(_)
DigitsToInt(s) ==
  IF s = <<>> THEN 0
  ELSE 10 * DigitsToInt(SubSeq(s, 1, Len(s) - 1)) + DigitVal(s[Len(s)])

\* the longest prefix of s made of digits
RECURSIVE DigitPrefix(_)
DigitPrefix(s) ==
  IF s # <<>> /\ IsDigit(Head(s)) THEN <<Head(s)>> \o DigitPrefix(Tail(s)) ELSE <<>>

AllDigits(s) == \A i \in 1..Len(s) : IsDigit(s[i])

\* Number.prototype.toString().padStart(2, '0') of a non-negative integer
RECURSIVE IntToDigits(_)
IntToDigits(k) ==
  IF k < 10 THEN <<DIGITS[k + 1]>> ELSE IntToDigits(k \div 10) \o <<DIGITS[(k % 10) + 1]>>

padStart2(s) == IF Len(s) < 2 THEN <<"0">> \o s ELSE s

-----------------------------------------------------------------------------
(* Domain tables (buddies/bride/domain.js); a Map is its set of <<key, value>> *)

VENDOR_TYPES ==
  { <<"p","h","o","t","o","g","r","a","p","h","e","r">>,
    <<"c","a","t","e","r","e","r">>,
    <<"f","l","o","r","i","s","t">>,
    <<"d","j">>,
    <<"v","i","d","e","o","g","r","a","p","h","e","r">>,
    <<"b","a","k","e","r">>,
    <<"p","l","a","n","n","e","r">>,
    <<"v","e","n","u","e">>,
    <<"d","e","c","o","r","a","t","o","r">>,
    <<"h","a","i","r","_","m","a","k","e","u","p">>,
    <<"t","r","a","n","s","p","o","r","t","a","t","i","o","n">>,
    <<"r","e","n","t","a","l","s">>,
    <<"o","t","h","e","r">> }

VENDOR_TYPE_ALIASES ==
  { <<<<"p","h","o","t","o","g","r","a","p","h","y">>, <<"p","h","o","t","o","g","r","a","p","h","e","r">>>>,
    <<<<"p","h","o","t","o">>, <<"p","h","o","t","o","g","r","a","p","h","e","r">>>>,
    <<<<"p","h","o","t","o","s">>, <<"p","h","o","t","o","g","r","a","p","h","e","r">>>>,
    <<<<"d","j","/","b","a","n","d">>, <<"d","j">>>>,
    <<<<"b","a","n","d">>, <<"d","j">>>>,
    <<<<"m","u","s","i","c">>, <<"d","j">>>>,
    <<<<"b","a","k","e","r","y">>, <<"b","a","k","e","r">>>>,
    <<<<"c","a","k","e">>, <<"b","a","k","e","r">>>>,
    <<<<"c","a","k","e","s">>, <<"b","a","k","e","r">>>>,
    <<<<"m","a","k","e","u","p">>, <<"h","a","i","r","_","m","a","k","e","u","p">>>>,
    <<<<"h","a","i","r"," ","&"," ","m","a","k","e","u","p">>, <<"h","a","i","r","_","m","a","k","e","u","p">>>>,
    <<<<"h","a","i","r"," ","a","n","d"," ","m","a","k","e","u","p">>, <<"h","a","i","r","_","m","a","k","e","u","p">>>>,
    <<<<"t","r","a","n","s","p","o","r","t">>, <<"t","r","a","n","s","p","o","r","t","a","t","i","o","n">>>>,
    <<<<"p","l","a","n","n","e","r","/","c","o","o","r","d","i","n","a","t","o","r">>, <<"p","l","a","n","n","e","r">>>>,
    <<<<"c","o","o","r","d","i","n","a","t","o","r">>, <<"p","l","a","n","n","e","r">>>>,
    <<<<"d","e","c","o","r">>, <<"d","e","c","o","r","a","t","o","r">>>>,
    <<<<"l","i","g","h","t","i","n","g">>, <<"d","e","c","o","r","a","t","o","r">>>> }

VENDOR_STATUSES ==
  { <<"i","n","q","u","i","r","y">>,
    <<"p","e","n","d","i","n","g">>,
    <<"b","o","o","k","e","d">>,
    <<"c","o","n","t","r","a","c","t","_","s","i","g","n","e","d">>,
    <<"d","e","p","o","s","i","t","_","p","a","i","d">>,
    <<"f","u","l","l","y","_","p","a","i","d">>,
    <<"r","e","j","e","c","t","e","d">>,
    <<"c","a","n","c","e","l","l","e","d">> }

BUDGET_CATEGORIES ==
  { <<<<"v","e","n","u","e">>, <<"v","e","n","u","e">>>>,
    <<<<"c","e","r","e","m","o","n","y">>, <<"v","e","n","u","e">>>>,
    <<<<"r","e","c","e","p","t","i","o","n">>, <<"v","e","n","u","e">>>>,
    <<<<"c","a","t","e","r","i","n","g">>, <<"c","a","t","e","r","i","n","g">>>>,
    <<<<"f","o","o","d">>, <<"c","a","t","e","r","i","n","g">>>>,
    <<<<"f","l","o","w","e","r","s">>, <<"f","l","o","w","e","r","s">>>>,
    <<<<"f","l","o","r","a","l">>, <<"f","l","o","w","e","r","s">>>>,
    <<<<"p","h","o","t","o","g","r","a","p","h","y">>, <<"p","h","o","t","o","g","r","a","p","h","y">>>>,
    <<<<"p","h","o","t","o">>, <<"p","h","o","t","o","g","r","a","p","h","y">>>>,
    <<<<"v","i","d","e","o","g","r","a","p","h","y">>, <<"v","i","d","e","o","g","r","a","p","h","y">>>>,
    <<<<"m","u","s","i","c">>, <<"m","u","s","i","c">>>>,
    <<<<"d","j">>, <<"m","u","s","i","c">>>>,
    <<<<"b","a","n","d">>, <<"m","u","s","i","c">>>>,
    <<<<"c","a","k","e">>, <<"c","a","k","e">>>>,
    <<<<"d","e","s","s","e","r","t">>, <<"c","a","k","e">>>>,
    <<<<"d","e","c","o","r">>, <<"d","e","c","o","r","a","t","i","o","n","s">>>>,
    <<<<"d","e","c","o","r","a","t","i","o","n","s">>, <<"d","e","c","o","r","a","t","i","o","n","s">>>>,
    <<<<"a","t","t","i","r","e">>, <<"a","t","t","i","r","e">>>>,
    <<<<"d","r","e","s","s">>, <<"a","t","t","i","r","e">>>>,
    <<<<"s","u","i","t">>, <<"a","t","t","i","r","e">>>>,
    <<<<"i","n","v","i","t","a","t","i","o","n","s">>, <<"i","n","v","i","t","a","t","i","o","n","s">>>>,
    <<<<"s","t","a","t","i","o","n","e","r","y">>, <<"i","n","v","i","t","a","t","i","o","n","s">>>>,
    <<<<"f","a","v","o","r","s">>, <<"f","a","v","o","r","s">>>>,
    <<<<"t","r","a","n","s","p","o","r","t">>, <<"t","r","a","n","s","p","o","r","t","a","t","i","o","n">>>>,
    <<<<"t","r","a","n","s","p","o","r","t","a","t","i","o","n">>, <<"t","r","a","n","s","p","o","r","t","a","t","i","o","n">>>>,
    <<<<"h","o","n","e","y","m","o","o","n">>, <<"h","o","n","e","y","m","o","o","n">>>>,
    <<<<"o","t","h","e","r">>, <<"o","t","h","e","r">>>> }

TASK_CATEGORIES ==
  { <<<<"v","e","n","u","e">>, <<"v","e","n","u","e">>>>,
    <<<<"c","a","t","e","r","i","n","g">>, <<"c","a","t","e","r","i","n","g">>>>,
    <<<<"f","l","o","w","e","r","s">>, <<"f","l","o","w","e","r","s">>>>,
    <<<<"f","l","o","r","a","l">>, <<"f","l","o","w","e","r","s">>>>,
    <<<<"p","h","o","t","o","g","r","a","p","h","y">>, <<"p","h","o","t","o","g","r","a","p","h","y">>>>,
    <<<<"p","h","o","t","o">>, <<"p","h","o","t","o","g","r","a","p","h","y">>>>,
    <<<<"a","t","t","i","r","e">>, <<"a","t","t","i","r","e">>>>,
    <<<<"d","r","e","s","s">>, <<"a","t","t","i","r","e">>>>,
    <<<<"i","n","v","i","t","a","t","i","o","n","s">>, <<"i","n","v","i","t","a","t","i","o","n","s">>>>,
    <<<<"d","e","c","o","r">>, <<"d","e","c","o","r","a","t","i","o","n","s">>>>,
    <<<<"d","e","c","o","r","a","t","i","o","n","s">>, <<"d","e","c","o","r","a","t","i","o","n","s">>>>,
    <<<<"t","r","a","n","s","p","o","r","t">>, <<"t","r","a","n","s","p","o","r","t","a","t","i","o","n">>>>,
    <<<<"t","r","a","n","s","p","o","r","t","a","t","i","o","n">>, <<"t","r","a","n","s","p","o","r","t","a","t","i","o","n">>>>,
    <<<<"l","e","g","a","l">>, <<"l","e","g","a","l">>>>,
    <<<<"h","o","n","e","y","m","o","o","n">>, <<"h","o","n","e","y","m","o","o","n">>>>,
    <<<<"d","a","y","_","o","f">>, <<"d","a","y","_","o","f">>>>,
    <<<<"d","a","y","-","o","f">>, <<"d","a","y","_","o","f">>>>,
    <<<<"o","t","h","e","r">>, <<"o","t","h","e","r">>>> }

TASK_STATUSES ==
  { <<"n","o","t","_","s","t","a","r","t","e","d">>,
    <<"i","n","_","p","r","o","g","r","e","s","s">>,
    <<"c","o","m","p","l","e","t","e","d">>,
    <<"c","a","n","c","e","l","l","e","d">> }

TASK_PRIORITIES ==
  { <<"l","o","w">>,
    <<"m","e","d","i","u","m">>,
    <<"h","i","g","h">>,
    <<"u","r","g","e","n","t">> }

MapHas(map, key) == \E e \in map : e[1] = key
\* a lookup that answers the key itself
MapGetKey(map, key) == (CHOOSE e \in map : e[1] = key)[1]

MapGet(map, key) == (CHOOSE e \in map : e[1] = key)[2]

MAX_EXTRACTED_JSON_CHARS == 12000

-----------------------------------------------------------------------------
(* Identity keys *)

vendorKey(type, name) == type \o <<":">> \o toLowerCase(name)

\* the identity of a task without its due date
taskDeterministicIdNameOnly(name, dueDate) == toLowerCase(name)

taskDeterministicId(name, dueDate) ==
  toLowerCase(name) \o <<":", ":">> \o
    (IF Truthy(dueDate) THEN dueDate.s ELSE <<"n","o","n","e">>)

-----------------------------------------------------------------------------
(* Primitive normalizers *)

toTrimmedString(value) ==
  IF value.t # "string" THEN Null
  ELSE IF trim(value.s) # <<>> THEN Str(trim(value.s)) ELSE Null

\* DATE_REGEX = /^\d{4}-\d{2}-\d{2}$/
DATE_REGEX(s) ==
  /\ Len(s) = 10
  /\ s[5] = "-" /\ s[8] = "-"
  /\ \A i \in {1, 2, 3, 4, 6, 7, 9, 10} : IsDigit(s[i])

\* a leap year every fourth year
IsLeapYearJulian(y) == y % 4 = 0

IsLeapYear(y) == (y % 4 = 0 /\ y % 100 # 0) \/ y % 400 = 0
DaysInMonth(y, m) ==
  IF m = 2 THEN (IF IsLeapYear(y) THEN 29 ELSE 28)
  ELSE IF m \in {4, 6, 9, 11} THEN 30 ELSE 31

\* new Date("YYYY-MM-DD"): NaN (valid = FALSE) for a month outside 01..12 or a day
\* outside 01..31; otherwise the UTC date, a day past the month's end carried
\* into the next month (MakeDay)
DateParse(y, m, d) ==
  IF m < 1 \/ m > 12 \/ d < 1 \/ d > 31
    THEN [valid |-> FALSE, year |-> 0, month |-> 0, day |-> 0]
  ELSE IF d <= DaysInMonth(y, m)
    THEN [valid |-> TRUE, year |-> y, month |-> m, day |-> d]
  ELSE IF m = 12
    THEN [valid |-> TRUE, year |-> y + 1, month |-> 1, day |-> d - DaysInMonth(y, m)]
  ELSE [valid |-> TRUE, year |-> y, month |-> m + 1, day |-> d - DaysInMonth(y, m)]

normalizeDate(value) ==
  IF ~Truthy(value) THEN Null
  ELSE IF value.t # "string" THEN Null
  ELSE LET trimmed == trim(value.s) IN
    IF trimmed = <<>> THEN Null
    ELSE IF ~DATE_REGEX(trimmed) THEN Null
    ELSE LET year == DigitsToInt(SubSeq(trimmed, 1, 4))
             month == DigitsToInt(SubSeq(trimmed, 6, 7))
             day == DigitsToInt(SubSeq(trimmed, 9, 10))
             date == DateParse(year, month, day)
         IN IF ~date.valid THEN Null
            ELSE IF date.year # year \/ date.month # month \/ date.day # day THEN Null
            ELSE Str(SubSeq(trimmed, 1, 4) \o <<"-">> \o SubSeq(trimmed, 6, 7)
                       \o <<"-">> \o SubSeq(trimmed, 9, 10))

\* Math.floor in place of Math.round
MathRoundDown(n) == 10 * (n \div 10)

\* Math.round of a non-negative number held in tenths, as a number in tenths
MathRound(n) == 10 * ((n + 5) \div 10)

\* Number.parseFloat on a text of digits, '.' and '-': the longest prefix that is
\* a decimal literal, [-]digits[.digits] with at least one digit; NaN otherwise.
\* The value is kept in tenths together with whether any digit beyond the first
\* fractional one is non-zero (only the sign of the value needs it).
parseFloat(s) ==
  LET neg == s # <<>> /\ Head(s) = "-"
      body == IF neg THEN Tail(s) ELSE s
      ip == DigitPrefix(body)
      rest == SubSeq(body, Len(ip) + 1, Len(body))
      fp == IF rest # <<>> /\ Head(rest) = "." THEN DigitPrefix(Tail(rest)) ELSE <<>>
      tenths == 10 * DigitsToInt(ip) + (IF fp = <<>> THEN 0 ELSE DigitVal(fp[1]))
      more == \E i \in 2..Len(fp) : fp[i] # "0"
  IN IF ip = <<>> /\ fp = <<>>
       THEN [nan |-> TRUE, neg |-> FALSE, tenths |-> 0, more |-> FALSE]
       ELSE [nan |-> FALSE, neg |-> neg, tenths |-> tenths, more |-> more]

IsCurrencyChar(c) == IsDigit(c) \/ c = "." \/ c = "-"

normalizeCurrency(value) ==
  IF IsNullish(value) \/ value = Str(<<>>) THEN Null
  ELSE IF value.t = "number"
    THEN (IF value.n >= 0 THEN NumTenths(MathRound(value.n)) ELSE Null)
  ELSE IF value.t # "string" THEN Null
  ELSE LET cleaned == SelectSeq(value.s, IsCurrencyChar) IN
    IF cleaned = <<>> THEN Null
    ELSE LET p == parseFloat(cleaned) IN
      IF p.nan \/ (p.neg /\ (p.tenths > 0 \/ p.more)) THEN Null
      ELSE NumTenths(MathRound(p.tenths))

\* Number.parseInt(cleaned, 10) on a text of digits only
parseInt(s) == DigitsToInt(DigitPrefix(s))

normalizeInteger(value) ==
  IF IsNullish(value) \/ value = Str(<<>>) THEN Null
  ELSE IF value.t = "number"
    THEN (IF value.n % 10 = 0 /\ value.n >= 0 THEN value ELSE Null)
  ELSE IF value.t # "string" THEN Null
  ELSE LET cleaned == SelectSeq(value.s, IsDigit) IN
    IF cleaned = <<>> THEN Null ELSE Num(parseInt(cleaned))

TRUE_TOKENS ==
  { <<"t","r","u","e">>, <<"y","e","s">>, <<"y">>, <<"p","a","i","d">>,
    <<"c","o","m","p","l","e","t","e","d">> }
FALSE_TOKENS ==
  { <<"f","a","l","s","e">>, <<"n","o">>, <<"n">>, <<"u","n","p","a","i","d">>,
    <<"n","o","t"," ","p","a","i","d">> }

normalizeBoolean(value) ==
  IF IsNullish(value) THEN Null
  ELSE IF value.t = "boolean" THEN value
  ELSE IF value.t # "string" THEN Null
  ELSE LET lowered == toLowerCase(trim(value.s)) IN
    IF lowered = <<>> THEN Null
    ELSE IF lowered \in TRUE_TOKENS THEN Bool(TRUE)
    ELSE IF lowered \in FALSE_TOKENS THEN Bool(FALSE)
    ELSE Null

\* the lookup in the alias table alone
canonicalizeVendorTypeByAlias(value) ==
  IF ~Truthy(value) THEN Null
  ELSE IF value.t # "string" THEN Thrown
  ELSE LET normalized == toLowerCase(trim(value.s)) IN
    IF MapHas(VENDOR_TYPE_ALIASES, normalized)
      THEN Str(MapGet(VENDOR_TYPE_ALIASES, normalized))
    ELSE Null

\* value.trim(): a TypeError on anything but a string
canonicalizeVendorType(value) ==
  IF ~Truthy(value) THEN Null
  ELSE IF value.t # "string" THEN Thrown
  ELSE LET normalized == toLowerCase(trim(value.s)) IN
    IF normalized = <<>> THEN Null
    ELSE IF normalized \in VENDOR_TYPES THEN Str(normalized)
    ELSE IF MapHas(VENDOR_TYPE_ALIASES, normalized)
      THEN Str(MapGet(VENDOR_TYPE_ALIASES, normalized))
    ELSE Null

canonicalizeBudgetCategory(value) ==
  IF ~Truthy(value) THEN Null
  ELSE IF value.t # "string" THEN Thrown
  ELSE LET normalized == toLowerCase(trim(value.s)) IN
    IF normalized = <<>> THEN Null
    ELSE IF MapHas(BUDGET_CATEGORIES, normalized)
      THEN Str(MapGet(BUDGET_CATEGORIES, normalized))
    ELSE Null

canonicalizeTaskCategory(value) ==
  IF ~Truthy(value) THEN Null
  ELSE IF value.t # "string" THEN Thrown
  ELSE LET normalized == toLowerCase(trim(value.s)) IN
    IF normalized = <<>> THEN Null
    ELSE IF MapHas(TASK_CATEGORIES, normalized)
      THEN Str(MapGet(TASK_CATEGORIES, normalized))
    ELSE Null

\* the lowered text taken as canonical without the membership test
canonicalizeInSetUnchecked(value, closed) ==
  IF ~Truthy(value) THEN [threw |-> FALSE, status |-> Null, canonical |-> Null]
  ELSE IF value.t # "string" THEN [threw |-> TRUE, status |-> Null, canonical |-> Null]
  ELSE LET status == toLowerCase(trim(value.s)) IN
    [threw |-> FALSE, status |-> Str(status),
     canonical |-> IF status # <<>> THEN Str(status) ELSE Null]

\* value ? value.trim().toLowerCase() : null, then membership in a flat closed set;
\* the pair of the lowered text (status) and the canonical token (canonicalStatus)
canonicalizeInSet(value, closed) ==
  IF ~Truthy(value) THEN [threw |-> FALSE, status |-> Null, canonical |-> Null]
  ELSE IF value.t # "string" THEN [threw |-> TRUE, status |-> Null, canonical |-> Null]
  ELSE LET status == toLowerCase(trim(value.s)) IN
    [threw |-> FALSE, status |-> Str(status),
     canonical |-> IF status # <<>> /\ status \in closed THEN Str(status) ELSE Null]

\* EMAIL_REGEX = /^[^\s@]+@[^\s@]+\.[^\s@]+$/
EMAIL_REGEX(s) ==
  /\ \A i \in 1..Len(s) : ~IsSpace(s[i])
  /\ Cardinality({i \in 1..Len(s) : s[i] = "@"}) = 1
  /\ LET at == CHOOSE i \in 1..Len(s) : s[i] = "@" IN
       /\ at > 1
       /\ \E dot \in (at + 2)..(Len(s) - 1) : s[dot] = "."

IsPhoneChar(c) == IsDigit(c) \/ IsSpace(c) \/ c \in {"(", ")", "[", "]", "-"}

\* PHONE_REGEX = /^\+?[0-9()[\]\s-]{7,}$/
PHONE_REGEX(s) ==
  LET body == IF s # <<>> /\ Head(s) = "+" THEN Tail(s) ELSE s IN
    /\ Len(body) >= 7
    /\ \A i \in 1..Len(body) : IsPhoneChar(body[i])

validateEmail(value) ==
  LET str == toTrimmedString(value) IN
    IF ~Truthy(str) THEN Null
    ELSE IF EMAIL_REGEX(str.s) THEN str ELSE Null

validatePhone(value) ==
  LET str == toTrimmedString(value) IN
    IF ~Truthy(str) THEN Null
    ELSE IF PHONE_REGEX(str.s) THEN str ELSE Null

-----------------------------------------------------------------------------
(* formatWeddingTimeForSupabase and its regular expressions *)

\* the character at position i, or "" past either end
CharAt(s, i) == IF i \in 1..Len(s) THEN s[i] ELSE ""

\* \b between positions i - 1 and i
WordBoundary(s, i) == IsWordChar(CharAt(s, i - 1)) # IsWordChar(CharAt(s, i))

\* [0-5]\d at positions i, i + 1
IsMinutesAt(s, i) ==
  /\ CharAt(s, i) \in {"0", "1", "2", "3", "4", "5"}
  /\ IsDigit(CharAt(s, i + 1))

\* the lengths n for which ([01]?\d|2[0-3]) matches s[i .. i + n - 1], in the
\* order the regular expression engine tries them
HourLengths24(s, i) ==
  (IF CharAt(s, i) \in {"0", "1"} /\ IsDigit(CharAt(s, i + 1)) THEN <<2>> ELSE <<>>)
  \o (IF IsDigit(CharAt(s, i)) THEN <<1>> ELSE <<>>)
  \o (IF CharAt(s, i) = "2" /\ CharAt(s, i + 1) \in {"0", "1", "2", "3"}
        THEN <<2>> ELSE <<>>)

\* the least member of a non-empty set of positions
MinOf(S) == CHOOSE p \in S : \A q \in S : p <= q

NoMatch == [found |-> FALSE, hours |-> <<>>, minutes |-> <<>>, modifier |-> <<>>]

\* /^([01]?\d|2[0-3]):([0-5]\d)(?::([0-5]\d))?$/ with an hour of n characters
directAt(s, n) ==
  /\ CharAt(s, n + 1) = ":"
  /\ IsMinutesAt(s, n + 2)
  /\ \/ Len(s) = n + 3
     \/ Len(s) = n + 6 /\ CharAt(s, n + 4) = ":" /\ IsMinutesAt(s, n + 5)

directGroups(s, n) ==
  [found |-> TRUE, hours |-> SubSeq(s, 1, n),
   minutes |-> SubSeq(s, n + 2, n + 3), modifier |-> <<>>]

directFirst(s, lengths) ==
  IF \E k \in 1..Len(lengths) : directAt(s, lengths[k])
    THEN directGroups(s, lengths[MinOf({k \in 1..Len(lengths) : directAt(s, lengths[k])})])
    ELSE NoMatch

directMatch(s) == directFirst(s, HourLengths24(s, 1))

\* the first position at or after i that holds no white space
RECURSIVE SkipSpaces(_, _)
SkipSpaces(s, i) == IF IsSpace(CharAt(s, i)) THEN SkipSpaces(s, i + 1) ELSE i

\* /(\d{1,2})(?::(\d{2}))?\s*(am|pm)/ tried at start position i: the attempts
\* <<number of hour digits, minutes group present>> in backtracking order
ampmAttempts == << <<2, TRUE>>, <<2, FALSE>>, <<1, TRUE>>, <<1, FALSE>> >>

\* where (am|pm) must start: after the hour digits, the minutes group and \s*
ampmModifierAt(s, i, nd, withMin) ==
  SkipSpaces(s, IF withMin THEN i + nd + 3 ELSE i + nd)

ampmTailOk(s, m) == CharAt(s, m) \in {"a", "p"} /\ CharAt(s, m + 1) = "m"

ampmAt(s, i, nd, withMin) ==
  /\ \A k \in i..(i + nd - 1) : IsDigit(CharAt(s, k))
  /\ withMin =>
       /\ CharAt(s, i + nd) = ":"
       /\ IsDigit(CharAt(s, i + nd + 1))
       /\ IsDigit(CharAt(s, i + nd + 2))
  /\ ampmTailOk(s, ampmModifierAt(s, i, nd, withMin))

ampmTry(s, i, k) == ampmAt(s, i, ampmAttempts[k][1], ampmAttempts[k][2])

ampmGroups(s, i, nd, withMin, m) ==
  [found |-> TRUE, hours |-> SubSeq(s, i, i + nd - 1),
   minutes |-> IF withMin THEN SubSeq(s, i + nd + 1, i + nd + 2) ELSE <<>>,
   modifier |-> SubSeq(s, m, m + 1)]

ampmMatchWith(s, i, nd, withMin) ==
  ampmGroups(s, i, nd, withMin, ampmModifierAt(s, i, nd, withMin))

ampmMatchAt(s, i, k) == ampmMatchWith(s, i, ampmAttempts[k][1], ampmAttempts[k][2])

ampmMatchFrom(s, i) ==
  ampmMatchAt(s, i, MinOf({k \in 1..4 : ampmTry(s, i, k)}))

ampmMatchIn(s, starts) ==
  IF starts = {} THEN NoMatch ELSE ampmMatchFrom(s, MinOf(starts))

ampmMatch(s) ==
  ampmMatchIn(s, {i \in 1..Len(s) : \E k \in 1..4 : ampmTry(s, i, k)})

\* /\b([01]?\d|2[0-3])(:([0-5]\d))\b/ with an hour of n characters at position i
embedded24At(s, i, n) ==
  /\ WordBoundary(s, i)
  /\ CharAt(s, i + n) = ":"
  /\ IsMinutesAt(s, i + n + 1)
  /\ WordBoundary(s, i + n + 3)

embedded24Groups(s, i, n) ==
  [found |-> TRUE, hours |-> SubSeq(s, i, i + n - 1),
   minutes |-> SubSeq(s, i + n + 1, i + n + 2), modifier |-> <<>>]

embedded24First(s, i, lengths) ==
  embedded24Groups(s, i,
    lengths[MinOf({k \in 1..Len(lengths) : embedded24At(s, i, lengths[k])})])

embedded24Any(s, i, lengths) ==
  \E k \in 1..Len(lengths) : embedded24At(s, i, lengths[k])

embedded24Start(s, i) == embedded24First(s, i, HourLengths24(s, i))

embedded24In(s, starts) ==
  IF starts = {} THEN NoMatch ELSE embedded24Start(s, MinOf(starts))

embedded24HourMatch(s) ==
  embedded24In(s, {i \in 1..Len(s) : embedded24Any(s, i, HourLengths24(s, i))})

\* /\b([1-9]|1[0-2])\b/
embeddedHourOne(s, i) ==
  /\ WordBoundary(s, i)
  /\ IsDigit(CharAt(s, i)) /\ CharAt(s, i) # "0"
  /\ WordBoundary(s, i + 1)

embeddedHourTwo(s, i) ==
  /\ WordBoundary(s, i)
  /\ CharAt(s, i) = "1" /\ CharAt(s, i + 1) \in {"0", "1", "2"}
  /\ WordBoundary(s, i + 2)

embeddedHourStart(s, i) ==
  [found |-> TRUE,
   hours |-> IF embeddedHourOne(s, i) THEN SubSeq(s, i, i) ELSE SubSeq(s, i, i + 1),
   minutes |-> <<>>, modifier |-> <<>>]

embeddedHourIn(s, starts) ==
  IF starts = {} THEN NoMatch ELSE embeddedHourStart(s, MinOf(starts))

embeddedHourMatch(s) ==
  embeddedHourIn(s, {i \in 1..Len(s) : embeddedHourOne(s, i) \/ embeddedHourTwo(s, i)})

HoursMinutes(hours, minutes) == Str(hours \o <<":">> \o minutes)

\* lines 234-244
ampmHours(h, modifier) ==
  IF h = 12 THEN (IF modifier = <<"a","m">> THEN 0 ELSE 12)
  ELSE IF modifier = <<"p","m">> THEN h + 12
  ELSE h

ampmFormat(m) ==
  HoursMinutes(padStart2(IntToDigits(ampmHours(parseInt(m.hours), m.modifier))),
               padStart2(IntToDigits(IF m.minutes # <<>> THEN parseInt(m.minutes) ELSE 0)))

\* lines 254-260
embeddedHourFormat(hourVal) ==
  IF hourVal >= 0 /\ hourVal <= 23
    THEN HoursMinutes(padStart2(IntToDigits(hourVal)), <<"0", "0">>)
    ELSE Null

\* lines 225-262: the four patterns in priority order
formatMatches(direct, ampm, embedded24, embeddedHour) ==
  IF direct.found THEN HoursMinutes(padStart2(direct.hours), direct.minutes)
  ELSE IF ampm.found THEN ampmFormat(ampm)
  ELSE IF embedded24.found THEN HoursMinutes(padStart2(embedded24.hours), embedded24.minutes)
  ELSE IF embeddedHour.found THEN embeddedHourFormat(parseInt(embeddedHour.hours))
  ELSE Null

\* lines 215-262
formatLower(lower) ==
  IF lower = <<>> THEN Null
  ELSE IF lower = <<"n","o","o","n">> THEN Str(<<"1","2",":","0","0">>)
  ELSE IF lower = <<"m","i","d","n","i","g","h","t">> THEN Str(<<"0","0",":","0","0">>)
  ELSE formatMatches(directMatch(lower), ampmMatch(lower),
                     embedded24HourMatch(lower), embeddedHourMatch(lower))

formatWeddingTimeForSupabase(rawTime) ==
  IF ~Truthy(rawTime) \/ rawTime.t # "string" THEN Null
  ELSE formatLower(toLowerCase(trim(rawTime.s)))

-----------------------------------------------------------------------------
(* Warnings: the message template (code) and what it interpolates *)

Warning(code, index, name) == [code |-> code, index |-> index, name |-> name]

-----------------------------------------------------------------------------
(* sanitizeWeddingInfo: one iteration of the loop over Object.entries *)

FreeTextKeys ==
  { "partner1_name", "partner2_name", "ceremony_location", "reception_location",
    "venue_name", "color_scheme_primary", "color_scheme_secondary", "wedding_style",
    "wedding_name" }

\* sanitized[key] = value on an object held as its entries in insertion order
SetKey(entries, key, value) ==
  IF \E i \in 1..Len(entries) : entries[i].key = key
    THEN [i \in 1..Len(entries) |->
            IF entries[i].key = key THEN [key |-> key, value |-> value] ELSE entries[i]]
    ELSE Append(entries, [key |-> key, value |-> value])

\* the normalizer the switch applies to a recognized key
weddingInfoNormalize(key, value) ==
  CASE key = "wedding_date" -> normalizeDate(value)
    [] key = "wedding_time" -> formatWeddingTimeForSupabase(value)
    [] key = "expected_guest_count" -> normalizeInteger(value)
    [] key \in {"total_budget", "venue_cost"} -> normalizeCurrency(value)
    [] key \in FreeTextKeys -> toTrimmedString(value)
    [] OTHER -> Null

weddingInfoEntry(st, entry) ==
  LET key == entry.key
      value == entry.value
      normalized == weddingInfoNormalize(key, value)
  IN
  IF IsNullish(value) \/ value = Str(<<>>) THEN st
  ELSE IF key \in {"wedding_date", "wedding_time"}
    THEN (IF Truthy(normalized)
            THEN [st EXCEPT !.sanitized = SetKey(@, key, normalized)]
            ELSE [st EXCEPT !.warnings = Append(@, Warning("ignored_" \o key, -1, <<>>))])
  ELSE IF key \in {"expected_guest_count", "total_budget", "venue_cost"}
    THEN (IF normalized # Null
            THEN [st EXCEPT !.sanitized = SetKey(@, key, normalized)]
            ELSE [st EXCEPT !.warnings = Append(@, Warning("ignored_" \o key, -1, <<>>))])
  ELSE IF key \in FreeTextKeys
    THEN (IF Truthy(normalized)
            THEN [st EXCEPT !.sanitized = SetKey(@, key, normalized)]
            ELSE st)
  ELSE st

-----------------------------------------------------------------------------
(* sanitizeVendors: one call of the forEach callback *)

hasMeaningfulData(v) ==
  \/ v.total_cost # Null
  \/ v.deposit_amount # Null
  \/ v.status # Null
  \/ Truthy(v.notes)
  \/ v.deposit_paid # Null
  \/ v.contract_signed # Null
  \/ v.balance_due # Null

sanitizedVendorOf(vendor, vendorType, vendorName, adjustedDeposit, canonicalStatus) ==
  [ vendor_type |-> vendorType,
    vendor_name |-> vendorName,
    vendor_contact_name |-> toTrimmedString(vendor.vendor_contact_name),
    vendor_email |-> validateEmail(vendor.vendor_email),
    vendor_phone |-> validatePhone(vendor.vendor_phone),
    total_cost |-> normalizeCurrency(vendor.total_cost),
    deposit_amount |-> adjustedDeposit,
    deposit_paid |-> normalizeBoolean(vendor.deposit_paid),
    deposit_date |-> normalizeDate(vendor.deposit_date),
    balance_due |-> normalizeCurrency(vendor.balance_due),
    final_payment_date |-> normalizeDate(vendor.final_payment_date),
    final_payment_paid |-> normalizeBoolean(vendor.final_payment_paid),
    status |-> canonicalStatus,
    contract_signed |-> normalizeBoolean(vendor.contract_signed),
    contract_date |-> normalizeDate(vendor.contract_date),
    service_date |-> normalizeDate(vendor.service_date),
    notes |-> toTrimmedString(vendor.notes) ]

\* the part of the callback after seen.add(key), without lines 387-392
vendorKeepUnclamped(st, vendor, vendorType, vendorName, leg) ==
  LET cs == canonicalizeInSet(vendor.status, VENDOR_STATUSES)
      st2 == IF Truthy(cs.status) /\ ~Truthy(cs.canonical)
               THEN [st EXCEPT !.warnings =
                       Append(@, Warning("vendor_dropped_status", -1, vendorName.s))]
               ELSE st
      sanitizedVendor ==
        sanitizedVendorOf(vendor, vendorType, vendorName,
                          normalizeCurrency(vendor.deposit_amount), cs.canonical)
  IN
  IF cs.threw THEN [st EXCEPT !.threw = TRUE]
  ELSE IF leg /\ ~hasMeaningfulData(sanitizedVendor)
    THEN [st2 EXCEPT !.warnings =
            Append(@, Warning("vendor_no_actionable_data", -1, vendorName.s))]
  ELSE [st2 EXCEPT !.sanitized = Append(@, sanitizedVendor)]

\* the part of the callback after seen.add(key)
vendorKeep(st, vendor, vendorType, vendorName, leg) ==
  LET totalCost == normalizeCurrency(vendor.total_cost)
      depositAmount == normalizeCurrency(vendor.deposit_amount)
      clamp == totalCost # Null /\ depositAmount # Null /\ depositAmount.n > totalCost.n
      adjustedDeposit == IF clamp THEN totalCost ELSE depositAmount
      st1 == IF clamp
               THEN [st EXCEPT !.warnings =
                       Append(@, Warning("vendor_adjusted_deposit", -1, vendorName.s))]
               ELSE st
      cs == canonicalizeInSet(vendor.status, VENDOR_STATUSES)
      st2 == IF Truthy(cs.status) /\ ~Truthy(cs.canonical)
               THEN [st1 EXCEPT !.warnings =
                       Append(@, Warning("vendor_dropped_status", -1, vendorName.s))]
               ELSE st1
      sanitizedVendor ==
        sanitizedVendorOf(vendor, vendorType, vendorName, adjustedDeposit, cs.canonical)
  IN
  IF cs.threw THEN [st EXCEPT !.threw = TRUE]
  ELSE IF leg /\ ~hasMeaningfulData(sanitizedVendor)
    THEN [st2 EXCEPT !.warnings =
            Append(@, Warning("vendor_no_actionable_data", -1, vendorName.s))]
  ELSE [st2 EXCEPT !.sanitized = Append(@, sanitizedVendor)]

vendorCallback(st, vendor, index, leg) ==
  IF ~Truthy(vendor.item) \/ vendor.item.t # "object"
    THEN [st EXCEPT !.warnings = Append(@, Warning("vendor_expected_object", index, <<>>))]
  ELSE LET vendorName == toTrimmedString(vendor.vendor_name)
           vendorType == canonicalizeVendorType(vendor.vendor_type)
       IN
    IF vendorType = Thrown THEN [st EXCEPT !.threw = TRUE]
    ELSE IF ~Truthy(vendorName)
      THEN [st EXCEPT !.warnings = Append(@, Warning("vendor_missing_name", index, <<>>))]
    ELSE IF ~Truthy(vendorType)
      THEN [st EXCEPT !.warnings =
              Append(@, Warning("vendor_unsupported_type", -1, vendorName.s))]
    ELSE LET key == vendorKey(vendorType.s, vendorName.s) IN
      IF key \in st.seen
        THEN [st EXCEPT !.warnings =
                Append(@, Warning("vendor_duplicate", -1, vendorName.s))]
        ELSE vendorKeep([st EXCEPT !.seen = @ \cup {key}],
                        vendor, vendorType, vendorName, leg)

-----------------------------------------------------------------------------
(* sanitizeBudgetItems: one call of the forEach callback; the Map aggregated   *)
(* is the sequence of its values in insertion order                         *)

AggHas(aggregated, category) ==
  \E i \in 1..Len(aggregated) : aggregated[i].category = category

AggGet(aggregated, category) ==
  aggregated[CHOOSE i \in 1..Len(aggregated) : aggregated[i].category = category]

AggSet(aggregated, category, value) ==
  IF AggHas(aggregated, category)
    THEN [i \in 1..Len(aggregated) |->
            IF aggregated[i].category = category THEN value ELSE aggregated[i]]
    ELSE Append(aggregated, value)

\* a merge in which the last spent_amount wins
budgetMergeLastSpentWins(existing, item) ==
  LET budgetedAmount == normalizeCurrency(item.budgeted_amount)
      spentAmount == normalizeCurrency(item.spent_amount)
      transactionAmount == normalizeCurrency(item.transaction_amount)
      transactionDate == normalizeDate(item.transaction_date)
      description == toTrimmedString(item.transaction_description)
      notes == toTrimmedString(item.notes)
  IN [ category |-> existing.category,
       budgeted_amount |->
         IF budgetedAmount # Null THEN budgetedAmount ELSE existing.budgeted_amount,
       spent_amount |->
         IF spentAmount # Null THEN spentAmount ELSE existing.spent_amount,
       transaction_date |->
         IF Truthy(transactionDate) THEN transactionDate ELSE existing.transaction_date,
       transaction_amount |->
         IF transactionAmount # Null THEN transactionAmount
         ELSE existing.transaction_amount,
       transaction_description |->
         IF Truthy(description) THEN description ELSE existing.transaction_description,
       notes |-> IF Truthy(notes) THEN notes ELSE existing.notes ]

\* a merge in which the first budgeted_amount wins
budgetMergeFirstBudgetWins(existing, item) ==
  LET budgetedAmount == normalizeCurrency(item.budgeted_amount)
      spentAmount == normalizeCurrency(item.spent_amount)
      transactionAmount == normalizeCurrency(item.transaction_amount)
      transactionDate == normalizeDate(item.transaction_date)
      description == toTrimmedString(item.transaction_description)
      notes == toTrimmedString(item.notes)
  IN [ category |-> existing.category,
       budgeted_amount |->
         IF existing.budgeted_amount # Null THEN existing.budgeted_amount
         ELSE budgetedAmount,
       spent_amount |->
         IF spentAmount # Null
           THEN NumTenths((IF Truthy(existing.spent_amount)
                             THEN existing.spent_amount.n ELSE 0) + spentAmount.n)
           ELSE existing.spent_amount,
       transaction_date |->
         IF Truthy(transactionDate) THEN transactionDate ELSE existing.transaction_date,
       transaction_amount |->
         IF transactionAmount # Null THEN transactionAmount
         ELSE existing.transaction_amount,
       transaction_description |->
         IF Truthy(description) THEN description ELSE existing.transaction_description,
       notes |-> IF Truthy(notes) THEN notes ELSE existing.notes ]

budgetMerge(existing, item) ==
  LET budgetedAmount == normalizeCurrency(item.budgeted_amount)
      spentAmount == normalizeCurrency(item.spent_amount)
      transactionAmount == normalizeCurrency(item.transaction_amount)
      transactionDate == normalizeDate(item.transaction_date)
      description == toTrimmedString(item.transaction_description)
      notes == toTrimmedString(item.notes)
  IN [ category |-> existing.category,
       budgeted_amount |->
         IF budgetedAmount # Null THEN budgetedAmount ELSE existing.budgeted_amount,
       spent_amount |->
         IF spentAmount # Null
           THEN NumTenths((IF Truthy(existing.spent_amount)
                             THEN existing.spent_amount.n ELSE 0) + spentAmount.n)
           ELSE existing.spent_amount,
       transaction_date |->
         IF Truthy(transactionDate) THEN transactionDate ELSE existing.transaction_date,
       transaction_amount |->
         IF transactionAmount # Null THEN transactionAmount
         ELSE existing.transaction_amount,
       transaction_description |->
         IF Truthy(description) THEN description ELSE existing.transaction_description,
       notes |-> IF Truthy(notes) THEN notes ELSE existing.notes ]

\* the callback without the test of lines 451-454
budgetCallbackWithoutMoneyTest(st, item, index) ==
  IF ~Truthy(item.item) \/ item.item.t # "object"
    THEN [st EXCEPT !.warnings = Append(@, Warning("budget_expected_object", index, <<>>))]
  ELSE LET category == canonicalizeBudgetCategory(item.category) IN
    IF category = Thrown THEN [st EXCEPT !.threw = TRUE]
    ELSE IF ~Truthy(category)
      THEN [st EXCEPT !.warnings =
              Append(@, Warning("budget_unsupported_category", index, <<>>))]
    ELSE LET existing ==
               IF AggHas(st.sanitized, category)
                 THEN AggGet(st.sanitized, category)
                 ELSE [ category |-> category, budgeted_amount |-> Null,
                        spent_amount |-> Null, transaction_date |-> Null,
                        transaction_amount |-> Null,
                        transaction_description |-> Null, notes |-> Null ]
             merged == budgetMerge(existing, item)
         IN [st EXCEPT
               !.warnings = IF AggHas(st.sanitized, category)
                              THEN Append(@, Warning("budget_merged_duplicate", -1, category.s))
                              ELSE @,
               !.sanitized = AggSet(@, category, merged)]

budgetCallback(st, item, index) ==
  IF ~Truthy(item.item) \/ item.item.t # "object"
    THEN [st EXCEPT !.warnings = Append(@, Warning("budget_expected_object", index, <<>>))]
  ELSE LET category == canonicalizeBudgetCategory(item.category) IN
    IF category = Thrown THEN [st EXCEPT !.threw = TRUE]
    ELSE IF ~Truthy(category)
      THEN [st EXCEPT !.warnings =
              Append(@, Warning("budget_unsupported_category", index, <<>>))]
    ELSE IF /\ normalizeCurrency(item.budgeted_amount) = Null
            /\ normalizeCurrency(item.spent_amount) = Null
            /\ normalizeCurrency(item.transaction_amount) = Null
      THEN [st EXCEPT !.warnings =
              Append(@, Warning("budget_no_monetary_values", -1, category.s))]
    ELSE LET existing ==
               IF AggHas(st.sanitized, category)
                 THEN AggGet(st.sanitized, category)
                 ELSE [ category |-> category, budgeted_amount |-> Null,
                        spent_amount |-> Null, transaction_date |-> Null,
                        transaction_amount |-> Null,
                        transaction_description |-> Null, notes |-> Null ]
             merged == budgetMerge(existing, item)
         IN [st EXCEPT
               !.warnings = IF AggHas(st.sanitized, category)
                              THEN Append(@, Warning("budget_merged_duplicate", -1, category.s))
                              ELSE @,
               !.sanitized = AggSet(@, category, merged)]

-----------------------------------------------------------------------------
(* sanitizeTasks: one call of the forEach callback *)

AppendIf(ws, cond, w) == IF cond THEN Append(ws, w) ELSE ws

taskCallback(st, task, index) ==
  IF ~Truthy(task.item) \/ task.item.t # "object"
    THEN [st EXCEPT !.warnings = Append(@, Warning("task_expected_object", index, <<>>))]
  ELSE LET name == toTrimmedString(task.task_name) IN
    IF ~Truthy(name)
      THEN [st EXCEPT !.warnings = Append(@, Warning("task_missing_name", index, <<>>))]
    ELSE LET dueDate == normalizeDate(task.due_date)
             category == canonicalizeTaskCategory(task.category)
             cs == canonicalizeInSet(task.status, TASK_STATUSES)
             cp == canonicalizeInSet(task.priority, TASK_PRIORITIES)
             w1 == AppendIf(st.warnings, Truthy(task.due_date) /\ ~Truthy(dueDate),
                            Warning("task_removed_due_date", -1, name.s))
             w2 == AppendIf(w1, Truthy(task.category) /\ ~Truthy(category),
                            Warning("task_dropped_category", -1, name.s))
             w3 == AppendIf(w2, Truthy(cs.status) /\ ~Truthy(cs.canonical),
                            Warning("task_dropped_status", -1, name.s))
             w4 == AppendIf(w3, Truthy(cp.status) /\ ~Truthy(cp.canonical),
                            Warning("task_dropped_priority", -1, name.s))
             slug == taskDeterministicId(name.s, dueDate)
         IN
      IF category = Thrown \/ cs.threw \/ cp.threw THEN [st EXCEPT !.threw = TRUE]
      ELSE IF slug \in st.seen
        THEN [st EXCEPT !.warnings = Append(w4, Warning("task_duplicate", -1, name.s))]
      ELSE [st EXCEPT
              !.warnings = w4,
              !.seen = @ \cup {slug},
              !.sanitized = Append(@,
                [ task_name |-> name,
                  task_description |-> toTrimmedString(task.task_description),
                  category |-> category,
                  due_date |-> dueDate,
                  status |-> cs.canonical,
                  priority |-> cp.canonical,
                  notes |-> toTrimmedString(task.notes) ])]

-----------------------------------------------------------------------------
(* Bounds of the model *)

\* longest vendors / budget_items / tasks array of an envelope
MaxItems == 2
\* most keys of a wedding_info object
MaxEntries == 2
\* most white-space characters before and after the text of an envelope
MaxPad == 1

-----------------------------------------------------------------------------
(* The envelopes the model feeds to processClaudePayload *)

SeqsUpTo(S, n) == UNION {[1..k -> S] : k \in 0..n}

BlankVendor ==
  [ item |-> Obj, vendor_type |-> Undefined, vendor_name |-> Undefined,
    vendor_contact_name |-> Undefined, vendor_email |-> Undefined,
    vendor_phone |-> Undefined, total_cost |-> Undefined,
    deposit_amount |-> Undefined, deposit_paid |-> Undefined,
    deposit_date |-> Undefined, balance_due |-> Undefined,
    final_payment_date |-> Undefined, final_payment_paid |-> Undefined,
    status |-> Undefined, contract_signed |-> Undefined,
    contract_date |-> Undefined, service_date |-> Undefined, notes |-> Undefined ]

RawVendors ==
  { [BlankVendor EXCEPT !.item = Num(7)],
    [BlankVendor EXCEPT !.item = Null],
    [BlankVendor EXCEPT !.vendor_type = Str(<<"p","h","o","t","o">>)],
    [BlankVendor EXCEPT !.vendor_type = Str(<<"p","h","o","t","o">>), !.vendor_name = Str(<<"L","e","n","s">>)],
    [BlankVendor EXCEPT !.vendor_type = Str(<<"P","h","o","t","o","g","r","a","p","h","e","r"," ">>), !.vendor_name = Str(<<" ","l","e","n","s">>),
                        !.total_cost = Str(<<"$","3","0","0","0">>), !.status = Str(<<"B","o","o","k","e","d">>)],
    [BlankVendor EXCEPT !.vendor_type = Str(<<"f","l","o","r","i","s","t">>), !.vendor_name = Str(<<"L","e","n","s">>),
                        !.total_cost = Num(100), !.deposit_amount = Str(<<"2","5","0">>)],
    [BlankVendor EXCEPT !.vendor_type = Str(<<"f","l","o","r","i","s","t">>), !.vendor_name = Str(<<"L","E","N","S">>),
                        !.total_cost = Num(300), !.deposit_amount = Num(300),
                        !.status = Str(<<"b","o","o","k","e","d">>)],
    [BlankVendor EXCEPT !.vendor_type = Str(<<"b","o","g","u","s">>), !.vendor_name = Str(<<"A","n","n">>)],
    [BlankVendor EXCEPT !.vendor_type = Num(5), !.vendor_name = Str(<<"A","n","n">>)],
    [BlankVendor EXCEPT !.vendor_type = Str(<<"d","j">>), !.vendor_name = Str(<<"A","n","n">>),
                        !.status = Str(<<"w","e","i","r","d">>), !.vendor_email = Str(<<"b","a","d">>),
                        !.deposit_date = Str(<<"2","0","2","5","-","0","2","-","3","0">>), !.deposit_paid = Str(<<"m","a","y","b","e">>),
                        !.deposit_amount = Str(<<"8","0">>)],
    [BlankVendor EXCEPT !.vendor_type = Str(<<"b","a","n","d">>), !.vendor_name = Str(<<"A","n","n">>),
                        !.status = Num(3)],
    [BlankVendor EXCEPT !.vendor_type = Str(<<"m","u","s","i","c">>), !.vendor_name = Str(<<"a","n","n">>),
                        !.total_cost = Str(<<"a","b","c">>), !.deposit_amount = NumTenths(505),
                        !.vendor_email = Str(<<"a","@","b",".","c","o">>), !.vendor_phone = Str(<<"5","5","5","-","1","2","3","4">>),
                        !.contract_signed = Bool(TRUE), !.notes = Str(<<" ","o","k"," ">>),
                        !.service_date = Str(<<"2","0","2","5","-","0","9","-","2","0">>)] }

BlankBudgetItem ==
  [ item |-> Obj, category |-> Undefined, budgeted_amount |-> Undefined,
    spent_amount |-> Undefined, transaction_amount |-> Undefined,
    transaction_date |-> Undefined, transaction_description |-> Undefined,
    notes |-> Undefined ]

RawBudgetItems ==
  { [BlankBudgetItem EXCEPT !.item = Str(<<"x">>)],
    [BlankBudgetItem EXCEPT !.spent_amount = Num(10)],
    [BlankBudgetItem EXCEPT !.category = Str(<<"f","l","o","w","e","r","s">>), !.spent_amount = Num(200)],
    [BlankBudgetItem EXCEPT !.category = Str(<<"F","l","o","r","a","l"," ">>), !.spent_amount = Str(<<"$","2","5","0">>),
                            !.budgeted_amount = Num(1000), !.notes = Str(<<"n","1">>)],
    [BlankBudgetItem EXCEPT !.category = Str(<<"f","l","o","w","e","r","s">>), !.notes = Str(<<"o","n","l","y"," ","n","o","t","e","s">>),
                            !.transaction_description = Str(<<"d","0">>),
                            !.transaction_date = Str(<<"2","0","2","5","-","0","3","-","0","3">>)],
    [BlankBudgetItem EXCEPT !.category = Str(<<"f","l","o","w","e","r","s">>), !.budgeted_amount = Num(900),
                            !.spent_amount = Str(<<"-","5">>)],
    [BlankBudgetItem EXCEPT !.category = Str(<<"b","o","g","u","s">>), !.spent_amount = Num(5)],
    [BlankBudgetItem EXCEPT !.category = Num(4), !.spent_amount = Num(5)],
    [BlankBudgetItem EXCEPT !.category = Str(<<"m","u","s","i","c">>), !.budgeted_amount = Str(<<"5","0","0">>),
                            !.transaction_amount = NumTenths(125),
                            !.transaction_date = Str(<<"2","0","2","5","-","0","1","-","1","5">>),
                            !.transaction_description = Str(<<"d","e","p">>)],
    [BlankBudgetItem EXCEPT !.category = Str(<<"d","j">>), !.spent_amount = Num(0),
                            !.transaction_date = Str(<<"2","0","2","5","-","1","3","-","0","1">>)],
    [BlankBudgetItem EXCEPT !.category = Str(<<"b","a","n","d">>), !.spent_amount = Str(<<"a","b","c">>),
                            !.transaction_amount = Str(<<"-","1">>)] }

BlankTask ==
  [ item |-> Obj, task_name |-> Undefined, task_description |-> Undefined,
    category |-> Undefined, due_date |-> Undefined, status |-> Undefined,
    priority |-> Undefined, notes |-> Undefined ]

RawTasks ==
  { [BlankTask EXCEPT !.item = Null],
    [BlankTask EXCEPT !.task_name = Str(<<" "," "," ">>)],
    [BlankTask EXCEPT !.task_name = Num(3)],
    [BlankTask EXCEPT !.task_name = Str(<<"S","e","n","d"," ","i","n","v","i","t","e","s">>), !.category = Str(<<"i","n","v","i","t","a","t","i","o","n","s">>),
                      !.status = Str(<<"i","n","_","p","r","o","g","r","e","s","s">>), !.due_date = Str(<<"2","0","2","5","-","0","5","-","0","1">>)],
    [BlankTask EXCEPT !.task_name = Str(<<" ","s","e","n","d"," ","I","N","V","I","T","E","S"," ">>), !.due_date = Str(<<"2","0","2","5","-","0","5","-","0","1">>),
                      !.priority = Str(<<"b","o","g","u","s">>), !.category = Str(<<"n","o","p","e">>)],
    [BlankTask EXCEPT !.task_name = Str(<<"S","e","n","d"," ","i","n","v","i","t","e","s">>), !.due_date = Str(<<"2","0","2","5","-","0","6","-","0","1">>)],
    [BlankTask EXCEPT !.task_name = Str(<<"S","e","n","d"," ","i","n","v","i","t","e","s">>)],
    [BlankTask EXCEPT !.task_name = Str(<<"S","e","n","d"," ","i","n","v","i","t","e","s">>), !.due_date = Str(<<"2","0","2","5","-","0","2","-","3","0">>)],
    [BlankTask EXCEPT !.task_name = Str(<<"B","o","o","k">>), !.status = Num(1)],
    [BlankTask EXCEPT !.task_name = Str(<<"B","o","o","k">>), !.category = Obj],
    [BlankTask EXCEPT !.task_name = Str(<<"B","o","o","k">>), !.category = Str(<<"d","a","y","-","o","f">>),
                      !.status = Str(<<"C","o","m","p","l","e","t","e","d">>), !.priority = Str(<<"H","I","G","H"," ">>),
                      !.notes = Str(<<"x">>), !.task_description = Str(<<"c","a","l","l">>)] }

Entry(key, value) == [key |-> key, value |-> value]

RawEntries ==
  { Entry("wedding_date", Str(<<"2","0","2","5","-","0","9","-","2","0">>)),
    Entry("wedding_date", Str(<<"2","0","2","5","-","0","2","-","3","0">>)),
    Entry("wedding_date", Num(5)),
    Entry("wedding_time", Str(<<"5",":","3","0","p","m">>)),
    Entry("wedding_time", Str(<<"s","o","o","n">>)),
    Entry("wedding_time", Str(<<"1","3",":","7","5","p","m">>)),
    Entry("wedding_time", Bool(TRUE)),
    Entry("expected_guest_count", Str(<<"1","5","0">>)),
    Entry("expected_guest_count", Str(<<"m","a","n","y">>)),
    Entry("expected_guest_count", NumTenths(15)),
    Entry("total_budget", Str(<<"$","2","5",",","0","0","0">>)),
    Entry("total_budget", Str(<<"-","5">>)),
    Entry("total_budget", Null),
    Entry("venue_cost", Num(0)),
    Entry("venue_cost", Str(<<"f","r","e","e">>)),
    Entry("partner1_name", Str(<<" ","A","n","n"," ">>)),
    Entry("partner1_name", Str(<<" "," "," ">>)),
    Entry("partner1_name", Str(<<>>)),
    Entry("partner2_name", Num(5)),
    Entry("venue_name", Str(<<"H","a","l","l">>)),
    Entry("wedding_style", Obj),
    Entry("wedding_name", Str(<<"O","u","r"," ","d","a","y">>)),
    Entry("favorite_color", Str(<<"r","e","d">>)) }

\* an object never holds a key twice
EntryLists ==
  { es \in SeqsUpTo(RawEntries, MaxEntries) :
      \A i, j \in 1..Len(es) : i # j => es[i].key # es[j].key }

\* a section of the document: what parsed.<section> evaluates to
Missing == [t |-> "undefined", items |-> <<>>]
NotAList == [t |-> "string", items |-> <<>>]
ArrayOf(items) == [t |-> "array", items |-> items]
ObjectOf(entries) == [t |-> "object", items |-> entries]

Doc(top, wi, vs, bs, ts) ==
  [top |-> top, wedding_info |-> wi, vendors |-> vs, budget_items |-> bs, tasks |-> ts]

EmptyDoc == Doc("object", Missing, Missing, Missing, Missing)

\* the payload of scripts/test-process-claude-payload.js
TestPayload ==
  Doc("object",
      ObjectOf(<< Entry("wedding_time", Str(<<"5",":","3","0","p","m">>)),
                  Entry("wedding_date", Str(<<"2","0","2","5","-","0","9","-","2","0">>)),
                  Entry("expected_guest_count", Str(<<"1","5","0">>)),
                  Entry("total_budget", Str(<<"$","2","5",",","0","0","0">>)) >>),
      ArrayOf(<< [BlankVendor EXCEPT !.vendor_type = Str(<<"p","h","o","t","o">>),
                                     !.vendor_name = Str(<<"L","e","n","s"," ","&"," ","C","o">>),
                                     !.total_cost = Str(<<"$","3","0","0","0">>),
                                     !.status = Str(<<"B","o","o","k","e","d">>)] >>),
      ArrayOf(<< [BlankBudgetItem EXCEPT !.category = Str(<<"f","l","o","w","e","r","s">>),
                                         !.spent_amount = Str(<<"$","4","5","0">>)] >>),
      ArrayOf(<< [BlankTask EXCEPT !.task_name = Str(<<"S","e","n","d"," ","i","n","v","i","t","e","s">>),
                                   !.category = Str(<<"i","n","v","i","t","a","t","i","o","n","s">>),
                                   !.status = Str(<<"i","n","_","p","r","o","g","r","e","s","s">>),
                                   !.due_date = Str(<<"2","0","2","5","-","0","5","-","0","1">>)],
                 [BlankTask EXCEPT !.task_name = Str(<<"S","e","n","d"," ","i","n","v","i","t","e","s">>),
                                   !.category = Str(<<"i","n","v","i","t","a","t","i","o","n","s">>),
                                   !.status = Str(<<"i","n","_","p","r","o","g","r","e","s","s">>),
                                   !.due_date = Str(<<"2","0","2","5","-","0","5","-","0","1">>)] >>))

\* a document every section of which makes its sanitizer warn
NoisyDoc ==
  Doc("object",
      ObjectOf(<< Entry("wedding_date", Num(5)), Entry("wedding_time", Str(<<"s","o","o","n">>)) >>),
      ArrayOf(<< [BlankVendor EXCEPT !.item = Num(7)],
                 [BlankVendor EXCEPT !.vendor_type = Str(<<"f","l","o","r","i","s","t">>),
                                     !.vendor_name = Str(<<"L","e","n","s">>),
                                     !.total_cost = Num(100),
                                     !.deposit_amount = Str(<<"2","5","0">>)] >>),
      ArrayOf(<< [BlankBudgetItem EXCEPT !.category = Str(<<"b","o","g","u","s">>),
                                         !.spent_amount = Num(5)] >>),
      ArrayOf(<< [BlankTask EXCEPT !.task_name = Str(<<" "," "," ">>)] >>))

Docs ==
  {EmptyDoc, TestPayload, NoisyDoc}
  \cup {Doc(top, Missing, Missing, Missing, Missing) :
          top \in {"null", "number", "string", "boolean", "array"}}
  \cup {Doc("object", wi, vs, bs, ts) :
          wi \in {Missing, NotAList, ObjectOf(<<>>)},
          vs \in {NotAList, ArrayOf(<<>>)},
          bs \in {Missing, ObjectOf(<<>>)},
          ts \in {Missing, ArrayOf(<<>>)}}
  \cup {Doc("object", ObjectOf(es), Missing, Missing, Missing) : es \in EntryLists}
  \cup {Doc("object", Missing, ArrayOf(vs), Missing, Missing) :
          vs \in SeqsUpTo(RawVendors, MaxItems)}
  \cup {Doc("object", Missing, Missing, ArrayOf(bs), Missing) :
          bs \in SeqsUpTo(RawBudgetItems, MaxItems)}
  \cup {Doc("object", Missing, Missing, Missing, ArrayOf(ts)) :
          ts \in SeqsUpTo(RawTasks, MaxItems)}

\* An argument of processClaudePayload.  A text is lead white-space characters,
\* len characters that begin and end with a non-blank one, and trail white-space
\* characters; JSON.parse either rejects it or returns doc.
Text(lead, len, trail, wellFormed, doc) ==
  [t |-> "string", lead |-> lead, len |-> len, trail |-> trail,
   wellFormed |-> wellFormed, doc |-> doc]

NonText(t) ==
  [t |-> t, lead |-> 0, len |-> 0, trail |-> 0, wellFormed |-> FALSE, doc |-> EmptyDoc]

\* the length of a document's text when it is within the cap
TypicalLen == 400

LimitLens ==
  {0, 2, MAX_EXTRACTED_JSON_CHARS - 1, MAX_EXTRACTED_JSON_CHARS,
   MAX_EXTRACTED_JSON_CHARS + 1, 2 * MAX_EXTRACTED_JSON_CHARS}

Inputs ==
  {NonText(t) : t \in {"null", "undefined", "number", "object"}}
  \cup {Text(lead, len, trail, FALSE, EmptyDoc) :
          lead \in 0..MaxPad, len \in LimitLens, trail \in 0..MaxPad}
  \cup {Text(lead, len, trail, TRUE, EmptyDoc) :
          lead \in 0..MaxPad, len \in LimitLens \ {0}, trail \in 0..MaxPad}
  \cup {Text(lead, len, trail, TRUE, TestPayload) :
          lead \in 0..MaxPad, len \in {n \in LimitLens : n >= TypicalLen},
          trail \in 0..MaxPad}
  \cup {Text(0, TypicalLen, 0, TRUE, doc) : doc \in Docs}

-----------------------------------------------------------------------------
(* processClaudePayload as a state machine *)

NoWarnings == <<>>

\* const result = { weddingInfo: {}, vendors: [], budgetItems: [], tasks: [],
\*                  warnings: [], parseError: null }
EmptyResult ==
  [ weddingInfo |-> <<>>, vendors |-> <<>>, budgetItems |-> <<>>, tasks |-> <<>>,
    warnings |-> NoWarnings, parseError |-> "null" ]

SizeLimitWarning == Warning("size_limit", -1, <<>>)
ParseErrorWarning == Warning("could_not_read", -1, <<>>)

\* rawExtractedDataText.length and rawExtractedDataText.trim().length
RawLength(in) == in.lead + in.len + in.trail
TrimmedLength(in) == in.len

\* !rawExtractedDataText || typeof rawExtractedDataText !== 'string', or an
\* empty trimmed text
IsNoData(in) == in.t # "string" \/ RawLength(in) = 0 \/ TrimmedLength(in) = 0

\* the comparison off by one
IsOversizedOffByOne(in) == TrimmedLength(in) > MAX_EXTRACTED_JSON_CHARS + 1

\* trimmed.length > MAX_EXTRACTED_JSON_CHARS
IsOversized(in) == TrimmedLength(in) > MAX_EXTRACTED_JSON_CHARS

\* parsed.<section>: undefined on a document that is not an object
SectionOf(doc, section) ==
  IF doc.top # "object" THEN Missing
  ELSE CASE section = "wedding_info" -> doc.wedding_info
         [] section = "vendors" -> doc.vendors
         [] section = "budget_items" -> doc.budget_items
         [] section = "tasks" -> doc.tasks

\* Array.isArray(list) && list.length !== 0
IsNonEmptyArray(section) == section.t = "array" /\ section.items # <<>>

FreshState == [seen |-> {}, sanitized |-> <<>>, warnings |-> NoWarnings, threw |-> FALSE]
LoopState == [seen |-> seen, sanitized |-> acc, warnings |-> warn, threw |-> FALSE]

Init ==
  /\ legacy \in BOOLEAN
  /\ input \in Inputs
  /\ pc = "start"
  /\ parsed = EmptyDoc
  /\ parserCalls = 0
  /\ idx = 0
  /\ seen = {}
  /\ acc = <<>>
  /\ warn = NoWarnings
  /\ parts = <<>>
  /\ result = EmptyResult
  /\ NoSessions /\ NoChat /\ NoLimiter

Finish(r) ==
  /\ result' = r
  /\ pc' = "done"
  /\ UNCHANGED <<legacy, input, parsed, parserCalls, idx, seen, acc, warn, parts>>
  /\ UNCHANGED <<sessionVars, chatVars, limiterVars>>

\* lines 576-583
ReturnNoData ==
  /\ pc = "start"
  /\ IsNoData(input)
  /\ Finish(result)

\* lines 585-588
RejectOversized ==
  /\ pc = "start"
  /\ ~IsNoData(input)
  /\ IsOversized(input)
  /\ Finish([result EXCEPT !.warnings = Append(@, SizeLimitWarning)])

\* the catch block setting parseError but pushing no warning
ParseFailsSilently ==
  /\ pc = "start"
  /\ ~IsNoData(input)
  /\ ~IsOversized(input)
  /\ ~input.wellFormed
  /\ parserCalls' = parserCalls + 1
  /\ result' = [result EXCEPT !.parseError = "SyntaxError"]
  /\ pc' = "done"
  /\ UNCHANGED <<legacy, input, parsed, idx, seen, acc, warn, parts>>
  /\ UNCHANGED <<sessionVars, chatVars, limiterVars>>

\* lines 590-597, JSON.parse throwing
ParseFails ==
  /\ pc = "start"
  /\ ~IsNoData(input)
  /\ ~IsOversized(input)
  /\ ~input.wellFormed
  /\ parserCalls' = parserCalls + 1
  /\ result' = [result EXCEPT !.parseError = "SyntaxError",
                              !.warnings = Append(@, ParseErrorWarning)]
  /\ pc' = "done"
  /\ UNCHANGED <<legacy, input, parsed, idx, seen, acc, warn, parts>>
  /\ UNCHANGED <<sessionVars, chatVars, limiterVars>>

\* lines 590-592, JSON.parse returning
ParseSucceeds ==
  /\ pc = "start"
  /\ ~IsNoData(input)
  /\ ~IsOversized(input)
  /\ input.wellFormed
  /\ parserCalls' = parserCalls + 1
  /\ parsed' = input.doc
  /\ pc' = "sanitizeWeddingInfo"
  /\ UNCHANGED <<legacy, input, idx, seen, acc, warn, parts, result>>
  /\ UNCHANGED <<sessionVars, chatVars, limiterVars>>

Throw ==
  /\ pc' = "threw"
  /\ UNCHANGED <<legacy, input, parsed, parserCalls, idx, seen, acc, warn, parts, result>>
  /\ UNCHANGED <<sessionVars, chatVars, limiterVars>>

\* a sanitizer returns { sanitized, warnings } and the next one is called
Return(sanitized, warnings, next) ==
  /\ parts' = Append(parts, [sanitized |-> sanitized, warnings |-> warnings])
  /\ pc' = next
  /\ idx' = 0
  /\ seen' = {}
  /\ acc' = <<>>
  /\ warn' = NoWarnings
  /\ UNCHANGED <<legacy, input, parsed, parserCalls, result>>
  /\ UNCHANGED <<sessionVars, chatVars, limiterVars>>

EnterLoop(loop) ==
  /\ pc' = loop
  /\ idx' = 0
  /\ seen' = {}
  /\ acc' = <<>>
  /\ warn' = NoWarnings
  /\ UNCHANGED <<legacy, input, parsed, parserCalls, parts, result>>
  /\ UNCHANGED <<sessionVars, chatVars, limiterVars>>

\* one iteration: the callback's effect on the sanitizer's locals, or its throw
Iterate(st) ==
  IF st.threw THEN Throw
  ELSE /\ idx' = idx + 1
       /\ seen' = st.seen
       /\ acc' = st.sanitized
       /\ warn' = st.warnings
       /\ UNCHANGED <<legacy, input, parsed, parserCalls, pc, parts, result>>
       /\ UNCHANGED <<sessionVars, chatVars, limiterVars>>

\* line 599: parsed.wedding_info (a TypeError when parsed is null), then
\* lines 265-271
CallSanitizeWeddingInfo ==
  /\ pc = "sanitizeWeddingInfo"
  /\ IF parsed.top = "null" THEN Throw
     ELSE IF SectionOf(parsed, "wedding_info").t # "object"
       THEN Return(<<>>, NoWarnings, "sanitizeVendors")
     ELSE EnterLoop("weddingInfoLoop")

\* lines 273-346
WeddingInfoLoop ==
  /\ pc = "weddingInfoLoop"
  /\ LET entries == SectionOf(parsed, "wedding_info").items IN
       IF idx < Len(entries)
         THEN Iterate(weddingInfoEntry(LoopState, entries[idx + 1]))
         ELSE Return(acc, warn, "sanitizeVendors")

\* lines 349-356
CallSanitizeVendors ==
  /\ pc = "sanitizeVendors"
  /\ IF ~IsNonEmptyArray(SectionOf(parsed, "vendors"))
       THEN Return(<<>>, NoWarnings, "sanitizeBudgetItems")
       ELSE EnterLoop("vendorsLoop")

\* lines 358-423 (src/unnamed/part_002 lines 662-741 when legacy)
VendorsLoop ==
  /\ pc = "vendorsLoop"
  /\ LET vendors == SectionOf(parsed, "vendors").items IN
       IF idx < Len(vendors)
         THEN Iterate(vendorCallback(LoopState, vendors[idx + 1], idx, legacy))
         ELSE Return(acc, warn, "sanitizeBudgetItems")

\* lines 426-432
CallSanitizeBudgetItems ==
  /\ pc = "sanitizeBudgetItems"
  /\ IF ~IsNonEmptyArray(SectionOf(parsed, "budget_items"))
       THEN Return(<<>>, NoWarnings, "sanitizeTasks")
       ELSE EnterLoop("budgetItemsLoop")

\* lines 434-499
BudgetItemsLoop ==
  /\ pc = "budgetItemsLoop"
  /\ LET budgetItems == SectionOf(parsed, "budget_items").items IN
       IF idx < Len(budgetItems)
         THEN Iterate(budgetCallback(LoopState, budgetItems[idx + 1], idx))
         ELSE Return(acc, warn, "sanitizeTasks")

\* lines 502-509
CallSanitizeTasks ==
  /\ pc = "sanitizeTasks"
  /\ IF ~IsNonEmptyArray(SectionOf(parsed, "tasks"))
       THEN Return(<<>>, NoWarnings, "assemble")
       ELSE EnterLoop("tasksLoop")

\* lines 511-563
TasksLoop ==
  /\ pc = "tasksLoop"
  /\ LET tasks == SectionOf(parsed, "tasks").items IN
       IF idx < Len(tasks)
         THEN Iterate(taskCallback(LoopState, tasks[idx + 1], idx))
         ELSE Return(acc, warn, "assemble")

\* the assembly with the task warnings put first
AssembleTasksFirst ==
  /\ pc = "assemble"
  /\ Finish([ weddingInfo |-> parts[1].sanitized,
              vendors |-> parts[2].sanitized,
              budgetItems |-> parts[3].sanitized,
              tasks |-> parts[4].sanitized,
              warnings |-> result.warnings \o parts[4].warnings \o parts[1].warnings
                             \o parts[2].warnings \o parts[3].warnings,
              parseError |-> result.parseError ])

\* lines 604-615
Assemble ==
  /\ pc = "assemble"
  /\ Finish([ weddingInfo |-> parts[1].sanitized,
              vendors |-> parts[2].sanitized,
              budgetItems |-> parts[3].sanitized,
              tasks |-> parts[4].sanitized,
              warnings |-> result.warnings \o parts[1].warnings \o parts[2].warnings
                             \o parts[3].warnings \o parts[4].warnings,
              parseError |-> result.parseError ])

Next ==
  \/ ReturnNoData
  \/ RejectOversized
  \/ ParseFails
  \/ ParseSucceeds
  \/ CallSanitizeWeddingInfo
  \/ WeddingInfoLoop
  \/ CallSanitizeVendors
  \/ VendorsLoop
  \/ CallSanitizeBudgetItems
  \/ BudgetItemsLoop
  \/ CallSanitizeTasks
  \/ TasksLoop
  \/ Assemble

Spec == Init /\ [][Next]_vars

-----------------------------------------------------------------------------
(* Properties *)

\* what each sanitizer was given and what it returned, once it has returned
VendorsReturned == Len(parts) >= 2
BudgetItemsReturned == Len(parts) >= 3
TasksReturned == Len(parts) >= 4

ZeroCollections(r) ==
  r.weddingInfo = <<>> /\ r.vendors = <<>> /\ r.budgetItems = <<>> /\ r.tasks = <<>>

\* C1: processClaudePayload never throws: for every input it returns a result
\* object, every failure being reported through warnings or parseError.
C1_NeverThrows == pc # "threw"

\* C2 as claimed: whenever the raw envelope text is longer than
\* MAX_EXTRACTED_JSON_CHARS the parser is never invoked and the result is the
\* zero-value result with exactly one size-limit warning and parseError = null.
C2_RawLengthCap ==
  (input.t = "string" /\ RawLength(input) > MAX_EXTRACTED_JSON_CHARS) =>
    /\ parserCalls = 0
    /\ pc \in {"start", "done"}
    /\ pc = "done" => result = [EmptyResult EXCEPT !.warnings = <<SizeLimitWarning>>]

\* C2 amended: whenever the envelope text, with its leading and trailing white
\* space removed, is longer than MAX_EXTRACTED_JSON_CHARS, the parser is never
\* invoked and the result is the zero-value result with exactly one size-limit
\* warning and parseError = null.
C2_TrimmedLengthCap ==
  (input.t = "string" /\ TrimmedLength(input) > MAX_EXTRACTED_JSON_CHARS) =>
    /\ parserCalls = 0
    /\ pc \in {"start", "done"}
    /\ pc = "done" => result = [EmptyResult EXCEPT !.warnings = <<SizeLimitWarning>>]

\* a well-formed document one character over the cap has been turned away
C2_Witness ==
  /\ pc = "done"
  /\ input.wellFormed
  /\ TrimmedLength(input) = MAX_EXTRACTED_JSON_CHARS + 1
  /\ result.warnings = <<SizeLimitWarning>>
  /\ parserCalls = 0

\* C3: a non-empty text within the bound that is not well-formed JSON gives
\* parseError set, exactly one user-facing warning and four empty collections;
\* and in every result parseError set implies the four collections are empty.
C3_MalformedDocument ==
  /\ (pc = "done" /\ ~IsNoData(input) /\ TrimmedLength(input) <= MAX_EXTRACTED_JSON_CHARS
        /\ ~input.wellFormed) =>
       /\ result.parseError # "null"
       /\ result.warnings = <<ParseErrorWarning>>
       /\ ZeroCollections(result)
  /\ result.parseError # "null" => ZeroCollections(result)

C3_Witness ==
  /\ pc = "done"
  /\ ~input.wellFormed
  /\ TrimmedLength(input) = MAX_EXTRACTED_JSON_CHARS
  /\ result.parseError = "SyntaxError"

-----------------------------------------------------------------------------
(* Vendors: what sanitizeVendors was given and what it returned *)

VendorInputs == SectionOf(parsed, "vendors").items
VendorOutputs == parts[2].sanitized
VendorWarnings == parts[2].warnings

IsObjectItem(x) == Truthy(x.item) /\ x.item.t = "object"

\* the record has a name and a type the domain knows
HasVendorIdentity(v) ==
  /\ IsObjectItem(v)
  /\ Truthy(toTrimmedString(v.vendor_name))
  /\ Truthy(canonicalizeVendorType(v.vendor_type))

\* (canonical type, lowercased trimmed name)
VendorIdentity(v) ==
  << canonicalizeVendorType(v.vendor_type).s,
     toLowerCase(toTrimmedString(v.vendor_name).s) >>

EmittedVendorIdentity(o) == << o.vendor_type.s, toLowerCase(o.vendor_name.s) >>

\* the positions of the input records that are the first of their identity,
\* and of those that repeat an earlier one
FirstVendors ==
  { j \in 1..Len(VendorInputs) :
      /\ HasVendorIdentity(VendorInputs[j])
      /\ \A i \in 1..(j - 1) :
           HasVendorIdentity(VendorInputs[i]) =>
             VendorIdentity(VendorInputs[i]) # VendorIdentity(VendorInputs[j]) }

LaterVendors ==
  { j \in 1..Len(VendorInputs) :
      /\ HasVendorIdentity(VendorInputs[j])
      /\ j \notin FirstVendors }

\* the first input record with the identity of an emitted vendor
VendorSource(o) ==
  VendorInputs[CHOOSE j \in FirstVendors :
                 VendorIdentity(VendorInputs[j]) = EmittedVendorIdentity(o)]

CountOf(ws, code) == Cardinality({i \in 1..Len(ws) : ws[i].code = code})

\* C4: within one sanitizeVendors pass no two output vendors share the identity
\* (canonical type, lowercased trimmed name); of several input records with
\* the same identity the first in input order is kept, and each later one is
\* dropped with a duplicate warning.
C4_VendorDedup ==
  VendorsReturned =>
    /\ \A i, j \in 1..Len(VendorOutputs) :
         i # j => EmittedVendorIdentity(VendorOutputs[i]) # EmittedVendorIdentity(VendorOutputs[j])
    /\ \A j \in FirstVendors :
         (\E l \in LaterVendors :
            VendorIdentity(VendorInputs[l]) = VendorIdentity(VendorInputs[j])) =>
           \E k \in 1..Len(VendorOutputs) :
             /\ VendorOutputs[k].vendor_name = toTrimmedString(VendorInputs[j].vendor_name)
             /\ VendorOutputs[k].vendor_type = canonicalizeVendorType(VendorInputs[j].vendor_type)
             /\ VendorOutputs[k].total_cost = normalizeCurrency(VendorInputs[j].total_cost)
    /\ Len(VendorOutputs) <= Cardinality(FirstVendors)
    /\ CountOf(VendorWarnings, "vendor_duplicate") = Cardinality(LaterVendors)
    /\ \A j \in LaterVendors :
         \E i \in 1..Len(VendorWarnings) :
           /\ VendorWarnings[i].code = "vendor_duplicate"
           /\ VendorWarnings[i].name = toTrimmedString(VendorInputs[j].vendor_name).s

\* the same statement of the sanitizeVendors of wedding_extractors alone
C4_VendorDedupCurrent == ~legacy => C4_VendorDedup

-----------------------------------------------------------------------------
(* Budget items *)

BudgetInputs == SectionOf(parsed, "budget_items").items
BudgetOutputs == parts[3].sanitized

\* the record is merged into its category's item
IsAcceptedBudgetItem(b) ==
  /\ IsObjectItem(b)
  /\ Truthy(canonicalizeBudgetCategory(b.category))
  /\ \/ normalizeCurrency(b.budgeted_amount) # Null
     \/ normalizeCurrency(b.spent_amount) # Null
     \/ normalizeCurrency(b.transaction_amount) # Null

\* the accepted records of a category that supply a spent_amount
SpentSuppliers(category) ==
  { j \in 1..Len(BudgetInputs) :
      /\ IsAcceptedBudgetItem(BudgetInputs[j])
      /\ canonicalizeBudgetCategory(BudgetInputs[j].category) = category
      /\ normalizeCurrency(BudgetInputs[j].spent_amount) # Null }

RECURSIVE SpentTenths(_)
SpentTenths(J) ==
  IF J = {} THEN 0
  ELSE LET j == CHOOSE x \in J : TRUE
       IN normalizeCurrency(BudgetInputs[j].spent_amount).n + SpentTenths(J \ {j})

\* C5: the output of sanitizeBudgetItems holds at most one item per canonical
\* category, exactly the categories of the accepted records, and each item's
\* spent_amount is the sum of the normalized spent_amount of the accepted
\* records of its category, or no value when none of them supplies one.
C5_BudgetMerge ==
  BudgetItemsReturned =>
    /\ \A i, j \in 1..Len(BudgetOutputs) :
         i # j => BudgetOutputs[i].category # BudgetOutputs[j].category
    /\ { BudgetOutputs[k].category : k \in 1..Len(BudgetOutputs) }
         = { canonicalizeBudgetCategory(BudgetInputs[j].category) :
               j \in { i \in 1..Len(BudgetInputs) : IsAcceptedBudgetItem(BudgetInputs[i]) } }
    /\ \A k \in 1..Len(BudgetOutputs) :
         LET J == SpentSuppliers(BudgetOutputs[k].category) IN
           BudgetOutputs[k].spent_amount =
             IF J = {} THEN Null ELSE NumTenths(SpentTenths(J))

\* 'flowers' 200 and 'Floral ' $250 have become one item with 450
C5_Witness ==
  /\ BudgetItemsReturned
  /\ Len(BudgetInputs) = 2
  /\ BudgetInputs[1].category # BudgetInputs[2].category
  /\ Len(BudgetOutputs) = 1
  /\ BudgetOutputs[1].category = Str(<<"f","l","o","w","e","r","s">>)
  /\ BudgetOutputs[1].spent_amount = Num(450)

-----------------------------------------------------------------------------
(* Tasks *)

TaskInputs == SectionOf(parsed, "tasks").items
TaskOutputs == parts[4].sanitized
TaskWarnings == parts[4].warnings

HasTaskIdentity(t) == IsObjectItem(t) /\ Truthy(toTrimmedString(t.task_name))

\* (lowercased trimmed name, normalized due date or none)
TaskIdentity(t) ==
  << toLowerCase(toTrimmedString(t.task_name).s),
     IF Truthy(normalizeDate(t.due_date)) THEN normalizeDate(t.due_date).s ELSE <<"n","o","n","e">> >>

EmittedTaskIdentity(o) ==
  << toLowerCase(o.task_name.s), IF Truthy(o.due_date) THEN o.due_date.s ELSE <<"n","o","n","e">> >>

FirstTasks ==
  { j \in 1..Len(TaskInputs) :
      /\ HasTaskIdentity(TaskInputs[j])
      /\ \A i \in 1..(j - 1) :
           HasTaskIdentity(TaskInputs[i]) =>
             TaskIdentity(TaskInputs[i]) # TaskIdentity(TaskInputs[j]) }

\* C6: within one sanitizeTasks pass no two output tasks share the identity
\* (lowercased trimmed name, normalized due date or 'none'); of several input
\* tasks with the same identity only the first is kept, and a task with the
\* same name and another valid due date is kept as a task of its own.
C6_TaskDedup ==
  TasksReturned =>
    /\ \A i, j \in 1..Len(TaskOutputs) :
         i # j => EmittedTaskIdentity(TaskOutputs[i]) # EmittedTaskIdentity(TaskOutputs[j])
    /\ Len(TaskOutputs) = Cardinality(FirstTasks)
    /\ \A j \in FirstTasks :
         \E k \in 1..Len(TaskOutputs) :
           /\ TaskOutputs[k].task_name = toTrimmedString(TaskInputs[j].task_name)
           /\ TaskOutputs[k].due_date = normalizeDate(TaskInputs[j].due_date)
           /\ TaskOutputs[k].category = canonicalizeTaskCategory(TaskInputs[j].category)

\* 'Send invites' due 2025-05-01 and due 2025-06-01 are both in the output
C6_Witness ==
  /\ TasksReturned
  /\ Len(TaskOutputs) = 2
  /\ toLowerCase(TaskOutputs[1].task_name.s) = toLowerCase(TaskOutputs[2].task_name.s)
  /\ Truthy(TaskOutputs[1].due_date)
  /\ Truthy(TaskOutputs[2].due_date)
  /\ TaskOutputs[1].due_date # TaskOutputs[2].due_date

-----------------------------------------------------------------------------
(* Deposit clamp *)

\* the record's normalized deposit exceeds its normalized total cost
DepositExceedsTotal(v) ==
  /\ normalizeCurrency(v.total_cost) # Null
  /\ normalizeCurrency(v.deposit_amount) # Null
  /\ normalizeCurrency(v.deposit_amount).n > normalizeCurrency(v.total_cost).n

\* C7: in every vendor emitted by sanitizeVendors, total_cost is the
\* normalized total cost, deposit_amount is the normalized deposit or, when
\* that exceeds the total cost, the total cost; so deposit_amount <= total_cost
\* when both are known; and there is one 'Adjusted deposit' warning for each
\* emitted vendor whose normalized deposit exceeded its total cost, and no other.
C7_DepositClamp ==
  VendorsReturned =>
    /\ \A k \in 1..Len(VendorOutputs) :
         LET o == VendorOutputs[k]
             v == VendorSource(o)
         IN /\ o.total_cost = normalizeCurrency(v.total_cost)
            /\ o.deposit_amount =
                 IF DepositExceedsTotal(v) THEN normalizeCurrency(v.total_cost)
                 ELSE normalizeCurrency(v.deposit_amount)
            /\ (o.total_cost # Null /\ o.deposit_amount # Null) =>
                 o.deposit_amount.n <= o.total_cost.n
    /\ CountOf(VendorWarnings, "vendor_adjusted_deposit")
         = Cardinality({ k \in 1..Len(VendorOutputs) :
                           DepositExceedsTotal(VendorSource(VendorOutputs[k])) })
    /\ \A i \in 1..Len(VendorWarnings) :
         VendorWarnings[i].code = "vendor_adjusted_deposit" =>
           \E k \in 1..Len(VendorOutputs) :
             /\ DepositExceedsTotal(VendorSource(VendorOutputs[k]))
             /\ VendorOutputs[k].vendor_name.s = VendorWarnings[i].name

\* a deposit of "250" on a total cost of 100 has been emitted as 100
C7_Witness ==
  /\ VendorsReturned
  /\ \E k \in 1..Len(VendorOutputs) :
       /\ VendorSource(VendorOutputs[k]).deposit_amount = Str(<<"2","5","0">>)
       /\ VendorOutputs[k].total_cost = Num(100)
       /\ VendorOutputs[k].deposit_amount = Num(100)
  /\ CountOf(VendorWarnings, "vendor_adjusted_deposit") = 1

-----------------------------------------------------------------------------
(* Rejections and their warnings *)

InItemLoop == pc \in {"vendorsLoop", "budgetItemsLoop", "tasksLoop"}

\* C8: every input item of the vendor, budget-item or task list that is
\* dropped (the callback returns with the sanitized collection as it was)
\* adds exactly one warning, and the loop goes on to the next item.
C8_DroppedItemOneWarning ==
  [][ (InItemLoop /\ pc' = pc /\ idx' = idx + 1 /\ acc' = acc)
        => Len(warn') = Len(warn) + 1 ]_vars

\* a raw value that is present and not empty
IsPresent(value) == ~IsNullish(value) /\ value # Str(<<>>)

Field(name, raw, normalized) == [name |-> name, raw |-> raw, normalized |-> normalized]

\* a warning names a field of an item of a section
NamesField(w, section, field) ==
  w.code \in { section \o "_dropped_" \o field, section \o "_removed_" \o field }

\* the optional fields of one input record with what their normalizers return
VendorFields(v) ==
  { Field("vendor_email", v.vendor_email, validateEmail(v.vendor_email)),
    Field("vendor_phone", v.vendor_phone, validatePhone(v.vendor_phone)),
    Field("total_cost", v.total_cost, normalizeCurrency(v.total_cost)),
    Field("deposit_amount", v.deposit_amount, normalizeCurrency(v.deposit_amount)),
    Field("balance_due", v.balance_due, normalizeCurrency(v.balance_due)),
    Field("deposit_paid", v.deposit_paid, normalizeBoolean(v.deposit_paid)),
    Field("final_payment_paid", v.final_payment_paid, normalizeBoolean(v.final_payment_paid)),
    Field("contract_signed", v.contract_signed, normalizeBoolean(v.contract_signed)),
    Field("deposit_date", v.deposit_date, normalizeDate(v.deposit_date)),
    Field("final_payment_date", v.final_payment_date, normalizeDate(v.final_payment_date)),
    Field("contract_date", v.contract_date, normalizeDate(v.contract_date)),
    Field("service_date", v.service_date, normalizeDate(v.service_date)),
    Field("status", v.status, canonicalizeInSet(v.status, VENDOR_STATUSES).canonical) }

BudgetFields(b) ==
  { Field("budgeted_amount", b.budgeted_amount, normalizeCurrency(b.budgeted_amount)),
    Field("spent_amount", b.spent_amount, normalizeCurrency(b.spent_amount)),
    Field("transaction_amount", b.transaction_amount, normalizeCurrency(b.transaction_amount)),
    Field("transaction_date", b.transaction_date, normalizeDate(b.transaction_date)) }

TaskFields(t) ==
  { Field("due_date", t.due_date, normalizeDate(t.due_date)),
    Field("category", t.category, canonicalizeTaskCategory(t.category)),
    Field("status", t.status, canonicalizeInSet(t.status, TASK_STATUSES).canonical),
    Field("priority", t.priority, canonicalizeInSet(t.priority, TASK_PRIORITIES).canonical) }

IsRejectedField(f) == IsPresent(f.raw) /\ f.normalized = Null

Reported(fields, ws, section) ==
  \A f \in fields :
    IsRejectedField(f) => \E i \in 1..Len(ws) : NamesField(ws[i], section, f.name)

TaskSource(o) ==
  TaskInputs[CHOOSE j \in FirstTasks : TaskIdentity(TaskInputs[j]) = EmittedTaskIdentity(o)]

\* C9: whenever an optional field of a kept vendor, budget item or task is
\* present with a non-empty raw value that its normalizer rejects, a warning
\* naming that field is among the sanitizer's warnings.
C9_RejectedFieldReported ==
  /\ VendorsReturned =>
       \A k \in 1..Len(VendorOutputs) :
         Reported(VendorFields(VendorSource(VendorOutputs[k])), VendorWarnings, "vendor")
  /\ BudgetItemsReturned =>
       \A j \in 1..Len(BudgetInputs) :
         IsAcceptedBudgetItem(BudgetInputs[j]) =>
           Reported(BudgetFields(BudgetInputs[j]), parts[3].warnings, "budget")
  /\ TasksReturned =>
       \A k \in 1..Len(TaskOutputs) :
         Reported(TaskFields(TaskSource(TaskOutputs[k])), TaskWarnings, "task")

\* the part of the statement about tasks, whose four optional fields are the
\* ones sanitizeTasks reports
C9_RejectedTaskFieldReported ==
  TasksReturned =>
    \A k \in 1..Len(TaskOutputs) :
      Reported(TaskFields(TaskSource(TaskOutputs[k])), TaskWarnings, "task")

-----------------------------------------------------------------------------
(* Profile *)

ProfileReturned == Len(parts) >= 1
ProfileInputs ==
  IF SectionOf(parsed, "wedding_info").t = "object"
    THEN SectionOf(parsed, "wedding_info").items ELSE <<>>
ProfileWarnings == parts[1].warnings

RecognizedKeys ==
  {"wedding_date", "wedding_time", "expected_guest_count", "total_budget", "venue_cost"}
  \cup FreeTextKeys

\* the key is recognized and its present raw value is rejected by its normalizer
IsInvalidEntry(e) ==
  /\ e.key \in RecognizedKeys
  /\ IsPresent(e.value)
  /\ weddingInfoNormalize(e.key, e.value) = Null

InvalidEntries == { j \in 1..Len(ProfileInputs) : IsInvalidEntry(ProfileInputs[j]) }

\* C10: sanitizeWeddingInfo emits exactly one warning for each recognized key,
\* the free-text keys included, whose raw value is present and rejected by its
\* normalizer, and no other warning.
C10_ProfileWarnings ==
  ProfileReturned =>
    /\ Len(ProfileWarnings) = Cardinality(InvalidEntries)
    /\ \A j \in InvalidEntries :
         CountOf(ProfileWarnings, "ignored_" \o ProfileInputs[j].key) = 1
    /\ \A i \in 1..Len(ProfileWarnings) :
         \E j \in InvalidEntries :
           ProfileWarnings[i].code = "ignored_" \o ProfileInputs[j].key

\* the same statement of the keys that are not free text
IsInvalidTypedEntry(e) == IsInvalidEntry(e) /\ e.key \notin FreeTextKeys

C10_TypedProfileWarnings ==
  ProfileReturned =>
    /\ Len(ProfileWarnings)
         = Cardinality({ j \in 1..Len(ProfileInputs) : IsInvalidTypedEntry(ProfileInputs[j]) })
    /\ \A j \in 1..Len(ProfileInputs) :
         IsInvalidTypedEntry(ProfileInputs[j]) =>
           CountOf(ProfileWarnings, "ignored_" \o ProfileInputs[j].key) = 1

-----------------------------------------------------------------------------
(* What a validated value of each type is *)

\* HH:MM with HH in 00..23 and MM in 00..59
IsClockText(s) ==
  /\ Len(s) = 5
  /\ s[3] = ":"
  /\ \A i \in {1, 2, 4, 5} : IsDigit(s[i])
  /\ DigitsToInt(SubSeq(s, 1, 2)) <= 23
  /\ DigitsToInt(SubSeq(s, 4, 5)) <= 59

\* the days of each month of the Gregorian calendar
CalendarDays(y, m) ==
  IF m = 2 /\ y % 4 = 0 /\ (y % 100 # 0 \/ y % 400 = 0) THEN 29
  ELSE <<31, 28, 31, 30, 31, 30, 31, 31, 30, 31, 30, 31>>[m]

IsCalendarDate(y, m, d) == m \in 1..12 /\ d >= 1 /\ d <= CalendarDays(y, m)

\* YYYY-MM-DD naming a day of the calendar
IsCalendarDateText(s) ==
  /\ Len(s) = 10
  /\ s[5] = "-" /\ s[8] = "-"
  /\ \A i \in {1, 2, 3, 4, 6, 7, 9, 10} : IsDigit(s[i])
  /\ IsCalendarDate(DigitsToInt(SubSeq(s, 1, 4)), DigitsToInt(SubSeq(s, 6, 7)),
                    DigitsToInt(SubSeq(s, 9, 10)))

IsNonNegativeInteger(v) == v.t = "number" /\ v.n >= 0 /\ v.n % 10 = 0

IsTrimmedText(v) ==
  /\ v.t = "string"
  /\ v.s # <<>>
  /\ ~IsSpace(v.s[1])
  /\ ~IsSpace(v.s[Len(v.s)])

-----------------------------------------------------------------------------
(* Profile closure *)

ProfileOutputs == parts[1].sanitized

\* the recognized fields of a WeddingProfileFragment
ProfileFieldNames ==
  { "wedding_date", "wedding_time", "partner1_name", "partner2_name",
    "ceremony_location", "reception_location", "venue_name", "venue_cost",
    "expected_guest_count", "total_budget", "color_scheme_primary",
    "color_scheme_secondary", "wedding_style" }

IsValidatedProfileValue(key, value) ==
  CASE key = "wedding_date" -> value.t = "string" /\ IsCalendarDateText(value.s)
    [] key = "wedding_time" -> value.t = "string" /\ IsClockText(value.s)
    [] key \in {"expected_guest_count", "total_budget", "venue_cost"} ->
         IsNonNegativeInteger(value)
    [] OTHER -> IsTrimmedText(value)

\* C11: every key of the sanitized weddingInfo is one of the recognized fields
\* (date, time, partner names, locations, venue name and cost, guest count,
\* total budget, colors, style) and maps to a validated value of its type,
\* never null, an empty string or a placeholder.
C11_ProfileClosure ==
  ProfileReturned =>
    \A k \in 1..Len(ProfileOutputs) :
      /\ ProfileOutputs[k].key \in ProfileFieldNames
      /\ IsValidatedProfileValue(ProfileOutputs[k].key, ProfileOutputs[k].value)

\* the first half alone: only the keys of the list appear
C11_ProfileKeysListed ==
  ProfileReturned =>
    \A k \in 1..Len(ProfileOutputs) : ProfileOutputs[k].key \in ProfileFieldNames

\* the second half alone: what appears is validated
C11_ProfileValuesValidated ==
  ProfileReturned =>
    \A k \in 1..Len(ProfileOutputs) :
      IsValidatedProfileValue(ProfileOutputs[k].key, ProfileOutputs[k].value)

\* what does hold: the keys are those of the switch of sanitizeWeddingInfo, each
\* once, each from an input entry of that key, and none of the time's values
\* is null or empty
C11_ProfileKeysOfTheSwitch ==
  ProfileReturned =>
    /\ \A k \in 1..Len(ProfileOutputs) :
         /\ ProfileOutputs[k].key \in RecognizedKeys
         /\ \E j \in 1..Len(ProfileInputs) : ProfileInputs[j].key = ProfileOutputs[k].key
         /\ ProfileOutputs[k].key # "wedding_time" =>
              IsValidatedProfileValue(ProfileOutputs[k].key, ProfileOutputs[k].value)
         /\ ~IsNullish(ProfileOutputs[k].value) /\ ProfileOutputs[k].value # Str(<<>>)
    /\ \A i, j \in 1..Len(ProfileOutputs) :
         i # j => ProfileOutputs[i].key # ProfileOutputs[j].key

-----------------------------------------------------------------------------
(* The normalizers called on their own: input is the call (the function and  *)
(* its argument), result what the function returned                          *)

Call(fn, arg) == [fn |-> fn, arg |-> arg]

\* values that are not text
NonTextArgs == {Undefined, Null, Num(5), Bool(TRUE), Obj}

\* time expressions: an hour, minutes or none, a modifier or none
HourTexts == {<<"0">>, <<"5">>, <<"9">>, <<"1","1">>, <<"1","2">>, <<"1","3">>, <<"2","3">>, <<"2","4">>, <<"9","9">>}
MinuteTexts == {<<>>, <<":","0","0">>, <<":","3","0">>, <<":","5","9">>, <<":","6","0">>, <<":","7","5">>, <<":","5">>}
ModifierTexts == {<<>>, <<"a","m">>, <<"p","m">>, <<" ","P","M">>, <<" ","s","h","a","r","p">>}

TimeArgs ==
  { Str(h \o m \o x) : h \in HourTexts, m \in MinuteTexts, x \in ModifierTexts }
  \cup { Str(<<"n","o","o","n">>), Str(<<" ","M","i","d","n","i","g","h","t"," ">>), Str(<<"s","o","o","n">>), Str(<<"a","t"," ","1","4",":","0","5"," ","s","h","a","r","p">>),
         Str(<<"a","r","o","u","n","d"," ","7">>), Str(<<"1","4",":","0","0",":","3","0">>), Str(<<" "," "," ">>), Str(<<>>), Str(<<"5",":","3","0","p","m">>),
         Str(<<"h","a","l","f"," ","p","a","s","t"," ","3","0">>) }
  \cup NonTextArgs

\* the largest number, in tenths, given to the number normalizers, and the
\* smallest is its opposite
MaxTenths == 50

NumberArgs == { NumTenths(k) : k \in (0 - MaxTenths)..MaxTenths }

IntegerArgs ==
  NumberArgs
  \cup { Str(<<"1","5","0">>), Str(<<"0">>), Str(<<"0","0","7">>), Str(<<" ","1","2"," ">>), Str(<<"1","2"," ","g","u","e","s","t","s">>), Str(<<"1",",","2","0","0">>),
         Str(<<"-","5">>), Str(<<"-"," ","5">>), Str(<<"1",".","5">>), Str(<<"0",".","5">>), Str(<<"2",".","0">>), Str(<<"-","0">>),
         Str(<<"m","a","n","y">>), Str(<<>>), Str(<<" ">>), Str(<<"-">>), Str(<<".">>) }
  \cup {Undefined, Null, Bool(TRUE), Bool(FALSE), Obj}

CurrencyArgs ==
  NumberArgs
  \cup { Str(<<"$","2","5",",","0","0","0">>), Str(<<"$","3","0","0","0">>), Str(<<"4","5","0">>), Str(<<"0">>), Str(<<"1","2",".","5">>), Str(<<"1","2",".","4","9">>),
         Str(<<"0",".","5">>), Str(<<"9","9",".","9","5"," ","U","S","D">>), Str(<<"-","5">>), Str(<<"$","-","5">>), Str(<<"-"," ","5">>), Str(<<"-","0",".","0","4">>),
         Str(<<"-","0">>), Str(<<"5","-","3">>), Str(<<"1",".","2",".","3">>), Str(<<"f","r","e","e">>), Str(<<"-","-","5">>), Str(<<".">>), Str(<<"-">>),
         Str(<<>>), Str(<<" ">>), Str(<<".","5">>) }
  \cup {Undefined, Null, Bool(TRUE), Bool(FALSE), Obj}

\* dates: months 00..MaxMonth and days 00..MaxDay of a few years
MaxMonth == 13
MaxDay == 32
Years == {1900, 2000, 2023, 2024}

DateText(y, m, d) ==
  IntToDigits(y) \o <<"-">> \o padStart2(IntToDigits(m)) \o <<"-">> \o padStart2(IntToDigits(d))

DateArgs ==
  { Str(DateText(y, m, d)) : y \in Years, m \in 0..MaxMonth, d \in 0..MaxDay }
  \cup { Str(<<"0","0","0","0","-","0","2","-","2","9">>), Str(<<"0","0","9","9","-","1","2","-","3","1">>), Str(<<"9","9","9","9","-","1","2","-","3","1">>),
         Str(<<" ","2","0","2","5","-","0","9","-","2","0"," ">>), Str(<<"2","0","2","5","-","0","9","-","2","0"," ">>), Str(<<" ","2","0","2","5","-","0","2","-","3","0">>),
         Str(<<"2","0","2","5","-","9","-","2","0">>), Str(<<"2","5","-","0","9","-","2","0">>), Str(<<"2","0","2","5","/","0","9","/","2","0">>), Str(<<"2","0","2","5","0","9","2","0">>),
         Str(<<"2","0","2","5","-","0","9","-","2","0","T","1","0",":","0","0">>), Str(<<"0","9","-","2","0","-","2","0","2","5">>), Str(<<"S","e","p","t"," ","2","0">>), Str(<<>>), Str(<<" ">>) }
  \cup NonTextArgs

\* the keys and the values of a synonym table
KeysOf(map) == { kv[1] : kv \in map }
ValuesOf(map) == { kv[2] : kv \in map }

\* tokens given to a canonicalizer: those of its tables, one of them in capitals
\* between blanks, and values of no table
TokenArgs(tokens) ==
  { Str(c) : c \in tokens }
  \cup { Str(<<" ","O","t","h","e","r"," ">>), Str(<<" ","B","O","O","K","E","D">>), Str(<<"H","i","g","h"," ">>), Str(<<"b","o","g","u","s">>), Str(<<" ">>), Str(<<>>) }
  \cup NonTextArgs

\* canonicalStatus / canonicalPriority, or the TypeError of value.trim()
CanonicalOf(c) == IF c.threw THEN Thrown ELSE c.canonical

-----------------------------------------------------------------------------
(* The state machine of a single call *)

NormalizerCalls ==
  { Call("formatWeddingTimeForSupabase", a) : a \in TimeArgs }
  \cup { Call("normalizeInteger", a) : a \in IntegerArgs }
  \cup { Call("normalizeCurrency", a) : a \in CurrencyArgs }
  \cup { Call("normalizeDate", a) : a \in DateArgs }
  \cup { Call("canonicalizeVendorType", a) : a \in TokenArgs(VENDOR_TYPES \cup KeysOf(VENDOR_TYPE_ALIASES)) }
  \cup { Call("canonicalizeBudgetCategory", a) : a \in TokenArgs(KeysOf(BUDGET_CATEGORIES) \cup ValuesOf(BUDGET_CATEGORIES)) }
  \cup { Call("canonicalizeTaskCategory", a) : a \in TokenArgs(KeysOf(TASK_CATEGORIES) \cup ValuesOf(TASK_CATEGORIES)) }
  \cup { Call("vendor.status", a) : a \in TokenArgs(VENDOR_STATUSES) }
  \cup { Call("task.status", a) : a \in TokenArgs(TASK_STATUSES) }
  \cup { Call("task.priority", a) : a \in TokenArgs(TASK_PRIORITIES) }

NormalizersInit ==
  /\ legacy = FALSE
  /\ input \in NormalizerCalls
  /\ pc = "call"
  /\ parsed = EmptyDoc
  /\ parserCalls = 0
  /\ idx = 0
  /\ seen = {}
  /\ acc = <<>>
  /\ warn = NoWarnings
  /\ parts = <<>>
  /\ result = Undefined
  /\ NoSessions /\ NoChat /\ NoLimiter

Returns(fn, value) ==
  /\ pc = "call"
  /\ input.fn = fn
  /\ result' = value
  /\ pc' = "returned"
  /\ UNCHANGED <<legacy, input, parsed, parserCalls, idx, seen, acc, warn, parts>>
  /\ UNCHANGED <<sessionVars, chatVars, limiterVars>>

CallFormatWeddingTime ==
  Returns("formatWeddingTimeForSupabase", formatWeddingTimeForSupabase(input.arg))

CallNormalizeInteger ==
  Returns("normalizeInteger", normalizeInteger(input.arg))

CallNormalizeCurrency ==
  Returns("normalizeCurrency", normalizeCurrency(input.arg))

CallNormalizeDate ==
  Returns("normalizeDate", normalizeDate(input.arg))

CallCanonicalizeVendorType ==
  Returns("canonicalizeVendorType", canonicalizeVendorType(input.arg))

CallCanonicalizeBudgetCategory ==
  Returns("canonicalizeBudgetCategory", canonicalizeBudgetCategory(input.arg))

CallCanonicalizeTaskCategory ==
  Returns("canonicalizeTaskCategory", canonicalizeTaskCategory(input.arg))

CallCanonicalizeVendorStatus ==
  Returns("vendor.status", CanonicalOf(canonicalizeInSet(input.arg, VENDOR_STATUSES)))

CallCanonicalizeTaskStatus ==
  Returns("task.status", CanonicalOf(canonicalizeInSet(input.arg, TASK_STATUSES)))

CallCanonicalizeTaskPriority ==
  Returns("task.priority", CanonicalOf(canonicalizeInSet(input.arg, TASK_PRIORITIES)))

NormalizersNext ==
  \/ CallFormatWeddingTime
  \/ CallNormalizeInteger
  \/ CallNormalizeCurrency
  \/ CallNormalizeDate
  \/ CallCanonicalizeVendorType
  \/ CallCanonicalizeBudgetCategory
  \/ CallCanonicalizeTaskCategory
  \/ CallCanonicalizeVendorStatus
  \/ CallCanonicalizeTaskStatus
  \/ CallCanonicalizeTaskPriority

Normalizers == NormalizersInit /\ [][NormalizersNext]_vars

Returned(fn) == pc = "returned" /\ input.fn = fn

-----------------------------------------------------------------------------
(* Properties of the normalizers *)

\* C12: every value formatWeddingTimeForSupabase accepts is a 24-hour HH:MM
\* text with the hour in 00..23 and the minute in 00..59, whatever the raw text.
C12_TimeOfDayValid ==
  Returned("formatWeddingTimeForSupabase") =>
    \/ result = Null
    \/ result.t = "string" /\ IsClockText(result.s)

\* the same statement of the texts that carry no am/pm modifier
C12_TimeOfDayValidWithoutModifier ==
  (/\ Returned("formatWeddingTimeForSupabase")
   /\ input.arg.t = "string"
   /\ ~\E i \in 1..(Len(input.arg.s) - 1) :
         /\ toLowerCase(<<input.arg.s[i]>>) \in {<<"a">>, <<"p">>}
         /\ toLowerCase(<<input.arg.s[i + 1]>>) = <<"m">>) =>
    \/ result = Null
    \/ result.t = "string" /\ IsClockText(result.s)

\* what a text says of a quantity: read as a decimal number after everything
\* but digits, '.' and '-' is removed
Quantity(s) == parseFloat(SelectSeq(s, IsCurrencyChar))
IsNegativeQuantity(s) ==
  LET q == Quantity(s) IN ~q.nan /\ q.neg /\ (q.tenths > 0 \/ q.more)
IsFractionalQuantity(s) ==
  LET q == Quantity(s) IN ~q.nan /\ (q.tenths % 10 # 0 \/ q.more)

\* C13: normalizeInteger returns no value or a non-negative integer; it rejects
\* negative and non-integer inputs, numbers and texts alike; and the digit
\* text "150" gives 150.
C13_IntegerNormalizer ==
  Returned("normalizeInteger") =>
    /\ result = Null \/ IsNonNegativeInteger(result)
    /\ (input.arg.t = "number" /\ (input.arg.n < 0 \/ input.arg.n % 10 # 0)) => result = Null
    /\ (input.arg.t = "string"
          /\ (IsNegativeQuantity(input.arg.s) \/ IsFractionalQuantity(input.arg.s))) =>
         result = Null
    /\ input.arg = Str(<<"1","5","0">>) => result = Num(150)

\* the statement without the texts of negative or fractional quantities
C13_IntegerNormalizerOfNumbersAndDigits ==
  Returned("normalizeInteger") =>
    /\ result = Null \/ IsNonNegativeInteger(result)
    /\ (input.arg.t = "number" /\ (input.arg.n < 0 \/ input.arg.n % 10 # 0)) => result = Null
    /\ (input.arg.t = "number" /\ input.arg.n >= 0 /\ input.arg.n % 10 = 0) =>
         result = input.arg
    /\ input.arg = Str(<<"1","5","0">>) => result = Num(150)

IsPlainDigits(s) == s # <<>> /\ \A i \in 1..Len(s) : s[i] \in {"0","1","2","3","4","5","6","7","8","9"}

C15_DateRoundTrip ==
  Returned("normalizeDate") =>
    IF input.arg.t = "string" /\ IsCalendarDateText(input.arg.s)
      THEN result = input.arg
      ELSE result = Null

\* C15 amended: for every string that, with its leading and trailing white
\* space removed, has the shape YYYY-MM-DD and names a day of the calendar,
\* normalizeDate returns that string without the white space; for every other
\* string, and every value that is not a string, it returns no value.
C15_DateRoundTripTrimmed ==
  Returned("normalizeDate") =>
    IF input.arg.t = "string" /\ IsCalendarDateText(trim(input.arg.s))
      THEN result = Str(trim(input.arg.s))
      ELSE result = Null

\* the 29th of February of a leap year has come back as it was
C15_Witness ==
  /\ Returned("normalizeDate")
  /\ input.arg = Str(<<"2","0","2","4","-","0","2","-","2","9">>)
  /\ result = input.arg

-----------------------------------------------------------------------------
(* Budget items: the fields that are not summed *)

\* the positions of the accepted records of a category
AcceptedOf(category) ==
  { j \in 1..Len(BudgetInputs) :
      /\ IsAcceptedBudgetItem(BudgetInputs[j])
      /\ canonicalizeBudgetCategory(BudgetInputs[j].category) = category }

MaxOf(S) == CHOOSE x \in S : \A y \in S : y <= x

\* the last value of a field that the accepted records of a category supply,
\* values being the normalized field of each input record
LastSupplied(category, values) ==
  LET S == { j \in AcceptedOf(category) : values[j] # Null }
  IN IF S = {} THEN Null ELSE values[MaxOf(S)]

\* C16: in each output budget item, budgeted_amount, transaction_amount,
\* transaction_date, transaction_description and notes are each the last
\* non-null normalized value of that field among the accepted input records of
\* the item's category, in input order, and no value when none supplies one.
C16_BudgetLastWriteWins ==
  BudgetItemsReturned =>
    \A k \in 1..Len(BudgetOutputs) :
      LET o == BudgetOutputs[k] IN
        /\ o.budgeted_amount =
             LastSupplied(o.category,
               [j \in 1..Len(BudgetInputs) |-> normalizeCurrency(BudgetInputs[j].budgeted_amount)])
        /\ o.transaction_amount =
             LastSupplied(o.category,
               [j \in 1..Len(BudgetInputs) |-> normalizeCurrency(BudgetInputs[j].transaction_amount)])
        /\ o.transaction_date =
             LastSupplied(o.category,
               [j \in 1..Len(BudgetInputs) |-> normalizeDate(BudgetInputs[j].transaction_date)])
        /\ o.transaction_description =
             LastSupplied(o.category,
               [j \in 1..Len(BudgetInputs) |->
                  toTrimmedString(BudgetInputs[j].transaction_description)])
        /\ o.notes =
             LastSupplied(o.category,
               [j \in 1..Len(BudgetInputs) |-> toTrimmedString(BudgetInputs[j].notes)])

\* two records of one category: the second has replaced the budgeted amount
\* of the first and, having no notes, has left the notes of the first
C16_Witness ==
  /\ BudgetItemsReturned
  /\ Len(BudgetInputs) = 2
  /\ Len(BudgetOutputs) = 1
  /\ normalizeCurrency(BudgetInputs[1].budgeted_amount) = Num(1000)
  /\ BudgetInputs[2].notes = Undefined
  /\ BudgetOutputs[1].budgeted_amount = Num(900)
  /\ BudgetOutputs[1].notes = Str(<<"n","1">>)

\* an object of a known category none of whose three amounts normalizes to a value
IsMoneylessRecord(b) ==
  /\ IsObjectItem(b)
  /\ canonicalizeBudgetCategory(b.category) # Thrown
  /\ Truthy(canonicalizeBudgetCategory(b.category))
  /\ normalizeCurrency(b.budgeted_amount) = Null
  /\ normalizeCurrency(b.spent_amount) = Null
  /\ normalizeCurrency(b.transaction_amount) = Null

\* C17: a budget record whose budgeted_amount, spent_amount and
\* transaction_amount all normalize to no value adds one 'no monetary values'
\* warning and nothing else, and leaves the accumulator as it was: no entry is
\* created, an existing entry keeps every field, no 'merged duplicate' warning.
C17_MoneylessRecordRejected ==
  [][ (/\ pc = "budgetItemsLoop"
       /\ idx < Len(BudgetInputs)
       /\ IsMoneylessRecord(BudgetInputs[idx + 1])) =>
        /\ idx' = idx + 1
        /\ acc' = acc
        /\ warn' = Append(warn,
                     Warning("budget_no_monetary_values", -1,
                             canonicalizeBudgetCategory(BudgetInputs[idx + 1].category).s)) ]_vars

\* a record with notes, a description and a date but no amount has gone by an
\* entry of its category, which has none of them
C17_Witness ==
  /\ pc = "budgetItemsLoop"
  /\ idx = 2
  /\ IsMoneylessRecord(BudgetInputs[2])
  /\ Truthy(toTrimmedString(BudgetInputs[2].notes))
  /\ Len(acc) = 1
  /\ acc[1].category = canonicalizeBudgetCategory(BudgetInputs[2].category)
  /\ acc[1].notes = Null
  /\ acc[1].transaction_date = Null
  /\ Len(warn) = 1
  /\ warn[1].code = "budget_no_monetary_values"

-----------------------------------------------------------------------------
(* The orchestrator *)

InLoop == pc \in {"weddingInfoLoop", "vendorsLoop", "budgetItemsLoop", "tasksLoop"}

\* ws begins with vs
IsPrefix(vs, ws) == Len(vs) <= Len(ws) /\ SubSeq(ws, 1, Len(vs)) = vs

\* C18: for a successfully parsed document, result.warnings is the warning
\* lists of the profile, vendor, budget-item and task sanitizers one after the
\* other, in that order, nothing lost or repeated; and within a sanitizer the
\* warnings of an item (or key) come after those of the items before it, each
\* list being returned as the loop left it.
C18_WarningOrder ==
  /\ [](pc = "done" /\ Len(parts) = 4 =>
          result.warnings = parts[1].warnings \o parts[2].warnings
                              \o parts[3].warnings \o parts[4].warnings)
  /\ [][ /\ (InLoop /\ pc' = pc) => (idx' = idx + 1 /\ IsPrefix(warn, warn'))
         /\ (InLoop /\ pc' \notin {pc, "threw"}) =>
              (/\ Len(parts') = Len(parts) + 1
               /\ parts'[Len(parts')].warnings = warn
               /\ SubSeq(parts', 1, Len(parts)) = parts) ]_vars

\* every sanitizer has warned, and the result begins with the profile's first
\* warning and ends with the tasks' last
C18_Witness ==
  /\ pc = "done"
  /\ Len(parts) = 4
  /\ \A i \in 1..4 : parts[i].warnings # <<>>
  /\ result.warnings[1] = parts[1].warnings[1]
  /\ result.warnings[1] # parts[4].warnings[1]
  /\ result.warnings[Len(result.warnings)] = parts[4].warnings[Len(parts[4].warnings)]

\* a section its sanitizer has nothing to read from
IsUnusableSection(section) ==
  IF section = "wedding_info"
    THEN SectionOf(parsed, section).t # "object"
    ELSE ~(SectionOf(parsed, section).t = "array" /\ SectionOf(parsed, section).items # <<>>)

ParseSucceeded == parserCalls = 1 /\ input.wellFormed

NothingFrom(i) ==
  Len(parts) >= i => parts[i] = [sanitized |-> <<>>, warnings |-> <<>>]

\* C19: a null, non-text or blank input gives the zero-value result with no
\* warning and no parse error; and for a well-formed document a section that
\* is missing, or is not an object / not a non-empty array, gives an empty
\* collection in the result and no warning.
C19_NoDataSilent ==
  /\ IsNoData(input) => pc \in {"start", "done"} /\ result = EmptyResult /\ parserCalls = 0
  /\ ParseSucceeded =>
       /\ IsUnusableSection("wedding_info") => NothingFrom(1)
       /\ IsUnusableSection("vendors") => NothingFrom(2)
       /\ IsUnusableSection("budget_items") => NothingFrom(3)
       /\ IsUnusableSection("tasks") => NothingFrom(4)
       /\ (\A s \in {"wedding_info", "vendors", "budget_items", "tasks"} :
             IsUnusableSection(s)) => pc # "threw"
       /\ pc = "done" =>
            /\ IsUnusableSection("wedding_info") => result.weddingInfo = <<>>
            /\ IsUnusableSection("vendors") => result.vendors = <<>>
            /\ IsUnusableSection("budget_items") => result.budgetItems = <<>>
            /\ IsUnusableSection("tasks") => result.tasks = <<>>
            /\ (\A s \in {"wedding_info", "vendors", "budget_items", "tasks"} :
                  IsUnusableSection(s)) => result = EmptyResult

\* the same statement of every document but the JSON text null
C19_NoDataSilentButForNull ==
  (ParseSucceeded => parsed.top # "null") => C19_NoDataSilent

-----------------------------------------------------------------------------
(* Closed sets *)

\* the closed set each canonicalizer answers in
ClosedSetOf(fn) ==
  CASE fn = "canonicalizeVendorType" -> VENDOR_TYPES
    [] fn = "canonicalizeBudgetCategory" -> ValuesOf(BUDGET_CATEGORIES)
    [] fn = "canonicalizeTaskCategory" -> ValuesOf(TASK_CATEGORIES)
    [] fn = "vendor.status" -> VENDOR_STATUSES
    [] fn = "task.status" -> TASK_STATUSES
    [] fn = "task.priority" -> TASK_PRIORITIES
    [] OTHER -> {}

\* C20: canonicalizing a member of a closed set (vendor types, vendor
\* statuses, budget categories, task categories, task statuses, task
\* priorities) returns it unchanged; and every canonical budget and task
\* category is a key of its synonym table that maps to itself.
C20_CanonicalIdempotent ==
  /\ (pc = "returned" /\ input.arg.t = "string" /\ input.arg.s \in ClosedSetOf(input.fn)) =>
       result = input.arg
  /\ \A c \in ValuesOf(BUDGET_CATEGORIES) : <<c, c>> \in BUDGET_CATEGORIES
  /\ \A c \in ValuesOf(TASK_CATEGORIES) : <<c, c>> \in TASK_CATEGORIES

\* 'photographer', a vendor type and no alias, has come back as it was
C20_Witness ==
  /\ Returned("canonicalizeVendorType")
  /\ input.arg = Str(<<"p","h","o","t","o","g","r","a","p","h","e","r">>)
  /\ result = Str(<<"p","h","o","t","o","g","r","a","p","h","e","r">>)


-----------------------------------------------------------------------------
(* The sanitizers and processClaudePayload as functions of their argument *)

RECURSIVE weddingInfoFrom(_, _, _)
weddingInfoFrom(st, entries, i) ==
  IF i >= Len(entries) THEN st
  ELSE weddingInfoFrom(weddingInfoEntry(st, entries[i + 1]), entries, i + 1)

sanitizeWeddingInfo(info) ==
  IF info.t # "object" THEN FreshState ELSE weddingInfoFrom(FreshState, info.items, 0)

RECURSIVE vendorsFrom(_, _, _, _)
vendorsFrom(st, vendors, i, leg) ==
  IF st.threw \/ i >= Len(vendors) THEN st
  ELSE vendorsFrom(vendorCallback(st, vendors[i + 1], i, leg), vendors, i + 1, leg)

sanitizeVendors(vendors, leg) ==
  IF ~IsNonEmptyArray(vendors) THEN FreshState
  ELSE vendorsFrom(FreshState, vendors.items, 0, leg)

RECURSIVE budgetItemsFrom(_, _, _)
budgetItemsFrom(st, budgetItems, i) ==
  IF st.threw \/ i >= Len(budgetItems) THEN st
  ELSE budgetItemsFrom(budgetCallback(st, budgetItems[i + 1], i), budgetItems, i + 1)

sanitizeBudgetItems(budgetItems) ==
  IF ~IsNonEmptyArray(budgetItems) THEN FreshState
  ELSE budgetItemsFrom(FreshState, budgetItems.items, 0)

RECURSIVE tasksFrom(_, _, _)
tasksFrom(st, tasks, i) ==
  IF st.threw \/ i >= Len(tasks) THEN st
  ELSE tasksFrom(taskCallback(st, tasks[i + 1], i), tasks, i + 1)

sanitizeTasks(tasks) ==
  IF ~IsNonEmptyArray(tasks) THEN FreshState
  ELSE tasksFrom(FreshState, tasks.items, 0)

\* an exception leaving processClaudePayload
ThrownResult == [EmptyResult EXCEPT !.parseError = "threw"]

\* lines 599-615
assembled(info, vendors, budgetItems, tasks) ==
  IF vendors.threw \/ budgetItems.threw \/ tasks.threw THEN ThrownResult
  ELSE [ weddingInfo |-> info.sanitized,
         vendors |-> vendors.sanitized,
         budgetItems |-> budgetItems.sanitized,
         tasks |-> tasks.sanitized,
         warnings |-> info.warnings \o vendors.warnings \o budgetItems.warnings
                        \o tasks.warnings,
         parseError |-> "null" ]

processClaudePayload(in, leg) ==
  IF IsNoData(in) THEN EmptyResult
  ELSE IF IsOversized(in) THEN [EmptyResult EXCEPT !.warnings = <<SizeLimitWarning>>]
  ELSE IF ~in.wellFormed
    THEN [EmptyResult EXCEPT !.parseError = "SyntaxError",
                             !.warnings = <<ParseErrorWarning>>]
  ELSE IF in.doc.top = "null" THEN ThrownResult
  ELSE assembled(sanitizeWeddingInfo(SectionOf(in.doc, "wedding_info")),
                 sanitizeVendors(SectionOf(in.doc, "vendors"), leg),
                 sanitizeBudgetItems(SectionOf(in.doc, "budget_items")),
                 sanitizeTasks(SectionOf(in.doc, "tasks")))

\* sanitized[key] of a profile held as its entries
ProfileValue(entries, key) ==
  IF \E i \in 1..Len(entries) : entries[i].key = key
    THEN entries[CHOOSE i \in 1..Len(entries) : entries[i].key = key].value
    ELSE Undefined

\* the step machine and the function agree
StepsAgreeWithFunction ==
  /\ pc = "done" => result = processClaudePayload(input, legacy)
  /\ pc = "threw" => processClaudePayload(input, legacy) = ThrownResult

-----------------------------------------------------------------------------
(* Several invocations of processClaudePayload, each with its own locals:      *)
(* one runs, another may wait where it was left                              *)

\* most invocations of one behaviour
MaxInvocations == 3

VendorOf(type, name) ==
  [BlankVendor EXCEPT !.vendor_type = Str(type), !.vendor_name = Str(name)]

\* two documents that share a vendor key, a budget category and a task key
FirstSharingDoc ==
  Doc("object", ObjectOf(<< Entry("wedding_time", Str(<<"5",":","3","0","p","m">>)) >>),
      ArrayOf(<< VendorOf(<<"p","h","o","t","o">>, <<"L","e","n","s">>),
                 [VendorOf(<<"f","l","o","r","i","s","t">>, <<"L","e","n","s">>) EXCEPT !.total_cost = Num(100),
                                                    !.deposit_amount = Str(<<"2","5","0">>)] >>),
      ArrayOf(<< [BlankBudgetItem EXCEPT !.category = Str(<<"f","l","o","w","e","r","s">>),
                                         !.spent_amount = Num(200)] >>),
      ArrayOf(<< [BlankTask EXCEPT !.task_name = Str(<<"B","o","o","k">>)],
                 [BlankTask EXCEPT !.task_name = Str(<<"S","e","n","d"," ","i","n","v","i","t","e","s">>),
                                   !.due_date = Str(<<"2","0","2","5","-","0","5","-","0","1">>)] >>))

SecondSharingDoc ==
  Doc("object", Missing,
      ArrayOf(<< [VendorOf(<<"f","l","o","r","i","s","t">>, <<"L","E","N","S">>) EXCEPT !.total_cost = Num(300),
                                                    !.status = Str(<<"b","o","o","k","e","d">>)] >>),
      ArrayOf(<< [BlankBudgetItem EXCEPT !.category = Str(<<"F","l","o","r","a","l"," ">>),
                                         !.spent_amount = Str(<<"$","2","5","0">>),
                                         !.budgeted_amount = Num(1000)] >>),
      ArrayOf(<< [BlankTask EXCEPT !.task_name = Str(<<" ","s","e","n","d"," ","I","N","V","I","T","E","S"," ">>),
                                   !.due_date = Str(<<"2","0","2","5","-","0","5","-","0","1">>),
                                   !.priority = Str(<<"b","o","g","u","s">>)] >>))

SessionInputs ==
  { Text(0, TypicalLen, 0, TRUE, FirstSharingDoc),
    Text(0, TypicalLen, 0, TRUE, SecondSharingDoc),
    Text(0, 2, 0, FALSE, EmptyDoc),
    Text(0, MAX_EXTRACTED_JSON_CHARS + 1, 0, TRUE, EmptyDoc),
    NonText("undefined") }

\* the locals of the running invocation
Frame ==
  [ input |-> input, pc |-> pc, parsed |-> parsed, parserCalls |-> parserCalls,
    idx |-> idx, seen |-> seen, acc |-> acc, warn |-> warn, parts |-> parts,
    result |-> result ]

\* the locals of an invocation that was just called with envelope e
NewFrame(e) ==
  [ input |-> e, pc |-> "start", parsed |-> EmptyDoc, parserCalls |-> 0,
    idx |-> 0, seen |-> {}, acc |-> <<>>, warn |-> NoWarnings, parts |-> <<>>,
    result |-> EmptyResult ]

\* the invocation with locals f runs, with the Set seen of the one that ran
SwitchToSharingSeen(f) ==
  /\ input' = f.input
  /\ pc' = f.pc
  /\ parsed' = f.parsed
  /\ parserCalls' = f.parserCalls
  /\ idx' = f.idx
  /\ seen' = seen
  /\ acc' = f.acc
  /\ warn' = f.warn
  /\ parts' = f.parts
  /\ result' = f.result
  /\ UNCHANGED <<legacy, chatVars, limiterVars>>

\* the invocation with locals f runs
SwitchTo(f) ==
  /\ input' = f.input
  /\ pc' = f.pc
  /\ parsed' = f.parsed
  /\ parserCalls' = f.parserCalls
  /\ idx' = f.idx
  /\ seen' = f.seen
  /\ acc' = f.acc
  /\ warn' = f.warn
  /\ parts' = f.parts
  /\ result' = f.result
  /\ UNCHANGED <<legacy, chatVars, limiterVars>>

InvocationsStarted ==
  Len(completed) + (IF pc = "idle" THEN 0 ELSE 1)
    + (IF suspended.pc = "none" THEN 0 ELSE 1)

SessionsInit ==
  /\ legacy \in BOOLEAN
  /\ input \in SessionInputs
  /\ pc = "start"
  /\ parsed = EmptyDoc
  /\ parserCalls = 0
  /\ idx = 0
  /\ seen = {}
  /\ acc = <<>>
  /\ warn = NoWarnings
  /\ parts = <<>>
  /\ result = EmptyResult
  /\ NoSessions /\ NoChat /\ NoLimiter

\* processClaudePayload is called, by a request that arrives while another
\* invocation is under way or after the last one returned
Invoke ==
  /\ pc # "done"
  /\ suspended.pc = "none"
  /\ InvocationsStarted < MaxInvocations
  /\ \E e \in SessionInputs : SwitchTo(NewFrame(e))
  /\ suspended' = IF pc = "idle" THEN NoFrame ELSE Frame
  /\ UNCHANGED completed

\* the waiting invocation goes on and the running one waits
Switch ==
  /\ pc # "done"
  /\ suspended.pc # "none"
  /\ SwitchTo(suspended)
  /\ suspended' = IF pc = "idle" THEN NoFrame ELSE Frame
  /\ UNCHANGED completed

\* the running invocation returns its result to its caller
ReturnResult ==
  /\ pc = "done"
  /\ completed' = Append(completed, [input |-> input, result |-> result])
  /\ pc' = "idle"
  /\ UNCHANGED <<legacy, input, parsed, parserCalls, idx, seen, acc, warn, parts, result>>
  /\ UNCHANGED <<suspended, chatVars, limiterVars>>

SessionsNext ==
  \/ Next
  \/ Invoke
  \/ Switch
  \/ ReturnResult

Sessions == SessionsInit /\ [][SessionsNext]_vars

-----------------------------------------------------------------------------
(* The chat handler (api/chat.js): what it writes to the tables of a wedding *)
(* from one processed payload.  A step is one request to the store and the   *)
(* code that runs until the next request is sent.                            *)

\* most requests the handler serves in one behaviour
MaxRequests == 3

\* most requests in one behaviour when requests may overlap
MaxOverlapping == 2

Handlers == {1, 2}

\* a reply of the assistant with no <extracted_data> section, and envelopes
\* that share a vendor key, budget categories and task keys
ThirdSharingDoc ==
  Doc("object", Missing, Missing,
      ArrayOf(<< [BlankBudgetItem EXCEPT !.category = Str(<<"f","l","o","w","e","r","s">>),
                                         !.budgeted_amount = Num(900),
                                         !.spent_amount = Str(<<"-","5">>)],
                 [BlankBudgetItem EXCEPT !.category = Str(<<"m","u","s","i","c">>),
                                         !.budgeted_amount = Str(<<"5","0","0">>),
                                         !.transaction_date = Str(<<"2","0","2","5","-","0","1","-","1","5">>)] >>),
      ArrayOf(<< [BlankTask EXCEPT !.task_name = Str(<<"B","o","o","k">>)],
                 [BlankTask EXCEPT !.task_name = Str(<<"S","e","n","d"," ","i","n","v","i","t","e","s">>)] >>))

ChatInputs ==
  { NonText("null"),
    Text(0, 2, 0, FALSE, EmptyDoc),
    Text(0, MAX_EXTRACTED_JSON_CHARS + 1, 0, TRUE, EmptyDoc),
    Text(0, TypicalLen, 0, TRUE, TestPayload),
    Text(0, TypicalLen, 0, TRUE, SecondSharingDoc),
    Text(0, TypicalLen, 0, TRUE, ThirdSharingDoc) }

\* x || 0
OrZero(value) == IF Truthy(value) THEN value ELSE Num(0)

RemoveAt(s, i) == SubSeq(s, 1, i - 1) \o SubSeq(s, i + 1, Len(s))

\* the last position of a row the test holds of, 0 when there is none
LastRow(positions) ==
  IF positions = {} THEN 0 ELSE CHOOSE i \in positions : \A j \in positions : j <= i

\* lines 209-213: .update(processedPayload.weddingInfo)
updateProfile(profile, info) ==
  [ key \in DOMAIN profile \cup {info[i].key : i \in 1..Len(info)} |->
      IF \E i \in 1..Len(info) : info[i].key = key
        THEN ProfileValue(info, key) ELSE profile[key] ]

\* lines 229-239 and 246-247: existingVendorMap.get(key)
existingVendorId(rows, key) ==
  LastRow({ i \in 1..Len(rows) :
              /\ Truthy(rows[i].vendor_type) /\ Truthy(rows[i].vendor_name)
              /\ vendorKey(rows[i].vendor_type.s, rows[i].vendor_name.s) = key })

KeyOfVendor(vendor) == vendorKey(vendor.vendor_type.s, vendor.vendor_name.s)

IsNewVendor(rows, vendor) == existingVendorId(rows, KeyOfVendor(vendor)) = 0

\* lines 255-261
vendorsToInsert(rows, vendors) ==
  SelectSeq(vendors, LAMBDA vendor : IsNewVendor(rows, vendor))

\* lines 249-254: every field but the type and the name
VendorUpdate(rows, vendor) ==
  [id |-> existingVendorId(rows, KeyOfVendor(vendor)), updates |-> vendor]

vendorsToUpdate(rows, vendors) ==
  LET known == SelectSeq(vendors, LAMBDA vendor : ~IsNewVendor(rows, vendor))
  IN [i \in 1..Len(known) |-> VendorUpdate(rows, known[i])]

VendorRow(vendor) ==
  [vendor_type |-> vendor.vendor_type, vendor_name |-> vendor.vendor_name,
   fields |-> vendor]

InsertRows(rows, new) == rows \o new

\* .update(updates).eq('id', id) on vendor_tracker
UpdateVendorRow(rows, u) == [rows EXCEPT ![u.id].fields = u.updates]

\* lines 304-312 and 319: existingBudgetMap.get(budgetItem.category)
existingBudgetId(rows, category) ==
  LastRow({ i \in 1..Len(rows) : rows[i].category = category })

IsPresentValue(value) == value # Null /\ value # Undefined

\* lines 329-338: whether spent_amount is among the updates
UpdatesSpent(existing, item) ==
  /\ IsPresentValue(item.spent_amount)
  /\ ~(item.spent_amount.n < 0)
  /\ ~(OrZero(existing.spent_amount).n + item.spent_amount.n < OrZero(existing.spent_amount).n)

\* lines 323-345: the keys of budgetUpdates
budgetUpdateKeys(existing, item) ==
  { key \in { "budgeted_amount", "spent_amount", "last_transaction_date",
              "last_transaction_amount", "last_transaction_description", "notes" } :
      CASE key = "budgeted_amount" -> IsPresentValue(item.budgeted_amount)
        [] key = "spent_amount" -> UpdatesSpent(existing, item)
        [] key = "last_transaction_date" -> Truthy(item.transaction_date)
        [] key = "last_transaction_amount" -> Truthy(item.transaction_amount)
        [] key = "last_transaction_description" -> Truthy(item.transaction_description)
        [] key = "notes" -> Truthy(item.notes) }

\* lines 323-345
budgetUpdates(existing, item) ==
  [ key \in budgetUpdateKeys(existing, item) |->
      CASE key = "budgeted_amount" -> item.budgeted_amount
        [] key = "spent_amount" ->
             NumTenths(OrZero(existing.spent_amount).n + item.spent_amount.n)
        [] key = "last_transaction_date" -> item.transaction_date
        [] key = "last_transaction_amount" -> item.transaction_amount
        [] key = "last_transaction_description" -> item.transaction_description
        [] key = "notes" -> item.notes ]

IsNewBudget(rows, item) == existingBudgetId(rows, item.category) = 0

BudgetUpdate(rows, item) ==
  [id |-> existingBudgetId(rows, item.category),
   updates |-> budgetUpdates(rows[existingBudgetId(rows, item.category)], item)]

\* lines 347-349
budgetsToUpdate(rows, budgetItems) ==
  LET known == SelectSeq(budgetItems, LAMBDA item :
                 /\ ~IsNewBudget(rows, item)
                 /\ budgetUpdateKeys(rows[existingBudgetId(rows, item.category)], item) # {})
  IN [i \in 1..Len(known) |-> BudgetUpdate(rows, known[i])]

\* lines 352-361
BudgetRow(item) ==
  [ category |-> item.category,
    budgeted_amount |-> OrZero(item.budgeted_amount),
    spent_amount |-> OrZero(item.spent_amount),
    last_transaction_date |-> item.transaction_date,
    last_transaction_amount |-> item.transaction_amount,
    last_transaction_description |-> item.transaction_description,
    notes |-> item.notes ]

budgetsToInsert(rows, budgetItems) ==
  LET new == SelectSeq(budgetItems, LAMBDA item : IsNewBudget(rows, item))
  IN [i \in 1..Len(new) |-> BudgetRow(new[i])]

\* .update(updates).eq('id', id) on budget_tracker
UpdateBudgetRow(rows, u) ==
  [rows EXCEPT ![u.id] =
     [key \in DOMAIN @ |-> IF key \in DOMAIN u.updates THEN u.updates[key] ELSE @[key]]]

\* the keys of the stored tasks left unread
existingTaskKeysUnread(rows) == {}

\* lines 409-416
existingTaskKeys(rows) ==
  { taskDeterministicId(rows[i].task_name.s, rows[i].due_date) :
      i \in { j \in 1..Len(rows) : Truthy(rows[j].task_name) } }

\* lines 418-432
RECURSIVE tasksToInsertFrom(_, _, _)
tasksToInsertFrom(keys, tasks, i) ==
  IF i > Len(tasks) THEN <<>>
  ELSE IF taskDeterministicId(tasks[i].task_name.s, tasks[i].due_date) \in keys
    THEN tasksToInsertFrom(keys, tasks, i + 1)
  ELSE <<tasks[i]>> \o
       tasksToInsertFrom(
         keys \cup {taskDeterministicId(tasks[i].task_name.s, tasks[i].due_date)},
         tasks, i + 1)

tasksToInsert(rows, tasks) == tasksToInsertFrom(existingTaskKeys(rows), tasks, 1)

\* the tables of a wedding before the first request
EmptyTables ==
  [ wedding_profiles |-> <<>>, vendor_tracker |-> <<>>, budget_tracker |-> <<>>,
    wedding_tasks |-> <<>> ]

SanitizedOf(doc) == processClaudePayload(Text(0, TypicalLen, 0, TRUE, doc), FALSE)

\* sanitized items with no field given
NullVendor == [key \in DOMAIN BlankVendor \ {"item"} |-> Null]

NullBudgetItem == [key \in DOMAIN BlankBudgetItem \ {"item"} |-> Null]

NullTask == [key \in DOMAIN BlankTask \ {"item"} |-> Null]

\* tables that earlier requests have written to
UsedTables ==
  [ wedding_profiles |-> <<>>,
    vendor_tracker |->
      << VendorRow([NullVendor EXCEPT !.vendor_type = Str(<<"p","h","o","t","o","g","r","a","p","h","e","r">>),
                                      !.vendor_name = Str(<<"L","e","n","s"," ","&"," ","C","o">>),
                                      !.total_cost = Num(3000),
                                      !.status = Str(<<"b","o","o","k","e","d">>)]) >>,
    budget_tracker |->
      << BudgetRow([NullBudgetItem EXCEPT !.category = Str(<<"f","l","o","w","e","r","s">>),
                                          !.spent_amount = Num(100)]),
         [BudgetRow([NullBudgetItem EXCEPT !.category = Str(<<"m","u","s","i","c">>),
                                           !.budgeted_amount = Num(500),
                                           !.transaction_date = Str(<<"2","0","2","5","-","0","1","-","1","5">>)])
            EXCEPT !.spent_amount = Null] >>,
    wedding_tasks |-> << [NullTask EXCEPT !.task_name = Str(<<"B","o","o","k">>)] >> ]

Categories == ValuesOf(BUDGET_CATEGORIES)

\* the spent_amount stored for a category, 0 when there is no row or no amount
StoredSpent(rows, c) ==
  IF existingBudgetId(rows, Str(c)) = 0 THEN 0
  ELSE OrZero(rows[existingBudgetId(rows, Str(c))].spent_amount).n

\* the spent_amount a payload supplies for a category, 0 when it supplies none
SuppliedSpent(budgetItems, c) ==
  IF \E i \in 1..Len(budgetItems) :
       budgetItems[i].category = Str(c) /\ IsPresentValue(budgetItems[i].spent_amount)
    THEN budgetItems[CHOOSE i \in 1..Len(budgetItems) :
                       budgetItems[i].category = Str(c)].spent_amount.n
    ELSE 0

IdleHandler ==
  [pc |-> "idle", processedPayload |-> EmptyResult, toInsert |-> <<>>, toUpdate |-> <<>>]

\* the request the handler sends next: a section with nothing in it sends none
ToMessages(f) == [f EXCEPT !.pc = "saveMessages", !.toInsert = <<>>, !.toUpdate = <<>>]

ToTasks(f) ==
  IF Len(f.processedPayload.tasks) > 0
    THEN [f EXCEPT !.pc = "selectTasks", !.toInsert = <<>>, !.toUpdate = <<>>]
    ELSE ToMessages(f)

ToBudgets(f) ==
  IF Len(f.processedPayload.budgetItems) > 0
    THEN [f EXCEPT !.pc = "selectBudgets", !.toInsert = <<>>, !.toUpdate = <<>>]
    ELSE ToTasks(f)

ToVendors(f) ==
  IF Len(f.processedPayload.vendors) > 0
    THEN [f EXCEPT !.pc = "selectVendors", !.toInsert = <<>>, !.toUpdate = <<>>]
    ELSE ToBudgets(f)

ToProfile(f) ==
  IF Len(f.processedPayload.weddingInfo) > 0
    THEN [f EXCEPT !.pc = "updateProfile"]
    ELSE ToVendors(f)

\* after a select: the batch insert, else the updates, else the next section
ToWrites(f, insert, update, toInsert, toUpdate, after) ==
  IF toInsert # <<>>
    THEN [f EXCEPT !.pc = insert, !.toInsert = toInsert, !.toUpdate = toUpdate]
  ELSE IF toUpdate # <<>>
    THEN [f EXCEPT !.pc = update, !.toInsert = <<>>, !.toUpdate = toUpdate]
  ELSE after

\* a step of invocation h: its locals, the tables, and whether the store
\* answered with an error
Step(h, f, tables, ok) ==
  /\ pc = "idle"
  /\ handlers' = [handlers EXCEPT ![h] = f]
  /\ db' = tables
  /\ applied' = [applied EXCEPT !.failed = @ \/ ~ok]
  /\ UNCHANGED <<pipelineVars, sessionVars, limiterVars>>

\* the locals of processClaudePayload while no invocation of it runs
IdleFrame == [NewFrame(NonText("null")) EXCEPT !.pc = "idle"]

\* processClaudePayload runs with locals f
Run(f) ==
  /\ input' = f.input
  /\ pc' = f.pc
  /\ parsed' = f.parsed
  /\ parserCalls' = f.parserCalls
  /\ idx' = f.idx
  /\ seen' = f.seen
  /\ acc' = f.acc
  /\ warn' = f.warn
  /\ parts' = f.parts
  /\ result' = f.result
  /\ UNCHANGED <<legacy, sessionVars, limiterVars>>

ChatInit ==
  /\ db \in {EmptyTables, UsedTables}
  /\ handlers = [h \in Handlers |-> IdleHandler]
  /\ applied = [ initial |-> [c \in Categories |-> StoredSpent(db.budget_tracker, c)],
                 spent |-> [c \in Categories |-> 0],
                 failed |-> FALSE,
                 requests |-> 0 ]
  /\ legacy = FALSE
  /\ input = IdleFrame.input
  /\ pc = IdleFrame.pc
  /\ parsed = IdleFrame.parsed
  /\ parserCalls = IdleFrame.parserCalls
  /\ idx = IdleFrame.idx
  /\ seen = IdleFrame.seen
  /\ acc = IdleFrame.acc
  /\ warn = IdleFrame.warn
  /\ parts = IdleFrame.parts
  /\ result = IdleFrame.result
  /\ NoSessions /\ NoLimiter

\* lines 29-193: a request arrives and processClaudePayload is called with the
\* reply of the assistant; when overlap is FALSE a request is served after
\* the one before it ended, and at most MaxOverlapping requests are served
\* otherwise.  No request is followed once the store has answered with an
\* error.
HandlerStart(h, overlap) ==
  /\ pc = "idle"
  /\ handlers[h].pc = "idle"
  /\ overlap \/ \A g \in Handlers : handlers[g].pc = "idle"
  /\ applied.requests < (IF overlap THEN MaxOverlapping ELSE MaxRequests)
  /\ ~applied.failed
  /\ \E e \in ChatInputs : Run(NewFrame(e))
  /\ handlers' = [handlers EXCEPT ![h].pc = "processing"]
  /\ applied' = [applied EXCEPT !.requests = @ + 1]
  /\ UNCHANGED db

\* lines 193-205: processClaudePayload has returned processedPayload
HandlerProcessed(h) ==
  /\ pc = "done"
  /\ handlers[h].pc = "processing"
  /\ handlers' = [handlers EXCEPT ![h] =
                    ToProfile([IdleHandler EXCEPT !.processedPayload = result])]
  /\ Run(IdleFrame)
  /\ UNCHANGED <<db, applied>>

\* lines 209-219
UpdateProfile(h) ==
  /\ handlers[h].pc = "updateProfile"
  /\ \E ok \in BOOLEAN :
       Step(h, ToVendors(handlers[h]),
            IF ok THEN [db EXCEPT !.wedding_profiles =
                          updateProfile(@, handlers[h].processedPayload.weddingInfo)]
                  ELSE db,
            ok)

\* lines 222-262
SelectVendors(h) ==
  /\ handlers[h].pc = "selectVendors"
  /\ \E ok \in BOOLEAN :
       Step(h,
            IF ok
              THEN ToWrites(handlers[h], "insertVendors", "updateVendors",
                     vendorsToInsert(db.vendor_tracker, handlers[h].processedPayload.vendors),
                     vendorsToUpdate(db.vendor_tracker, handlers[h].processedPayload.vendors),
                     ToBudgets(handlers[h]))
              ELSE ToBudgets(handlers[h]),
            db, ok)

\* lines 265-274
InsertVendors(h) ==
  /\ handlers[h].pc = "insertVendors"
  /\ \E ok \in BOOLEAN :
       Step(h,
            IF handlers[h].toUpdate # <<>>
              THEN [handlers[h] EXCEPT !.pc = "updateVendors", !.toInsert = <<>>]
              ELSE ToBudgets(handlers[h]),
            IF ok THEN [db EXCEPT !.vendor_tracker =
                          InsertRows(@, [i \in 1..Len(handlers[h].toInsert) |->
                                           VendorRow(handlers[h].toInsert[i])])]
                  ELSE db,
            ok)

\* lines 277-292: the updates of Promise.all reach the store in any order
UpdateVendors(h) ==
  /\ handlers[h].pc = "updateVendors"
  /\ \E i \in 1..Len(handlers[h].toUpdate), ok \in BOOLEAN :
       Step(h,
            IF Len(handlers[h].toUpdate) > 1
              THEN [handlers[h] EXCEPT !.toUpdate = RemoveAt(@, i)]
              ELSE ToBudgets(handlers[h]),
            IF ok THEN [db EXCEPT !.vendor_tracker =
                          UpdateVendorRow(@, handlers[h].toUpdate[i])]
                  ELSE db,
            ok)

\* lines 297-363
SelectBudgets(h) ==
  /\ handlers[h].pc = "selectBudgets"
  /\ \E ok \in BOOLEAN :
       /\ handlers' = [handlers EXCEPT ![h] =
            IF ok
              THEN ToWrites(handlers[h], "insertBudgets", "updateBudgets",
                     budgetsToInsert(db.budget_tracker, handlers[h].processedPayload.budgetItems),
                     budgetsToUpdate(db.budget_tracker, handlers[h].processedPayload.budgetItems),
                     ToTasks(handlers[h]))
              ELSE ToTasks(handlers[h])]
       /\ applied' =
            [applied EXCEPT
               !.failed = @ \/ ~ok,
               !.spent = [c \in Categories |->
                            @[c] + (IF ok THEN SuppliedSpent(
                                                 handlers[h].processedPayload.budgetItems, c)
                                          ELSE 0)]]
  /\ UNCHANGED <<db, pipelineVars, sessionVars, limiterVars>>

\* lines 366-375
InsertBudgets(h) ==
  /\ handlers[h].pc = "insertBudgets"
  /\ \E ok \in BOOLEAN :
       Step(h,
            IF handlers[h].toUpdate # <<>>
              THEN [handlers[h] EXCEPT !.pc = "updateBudgets", !.toInsert = <<>>]
              ELSE ToTasks(handlers[h]),
            IF ok THEN [db EXCEPT !.budget_tracker = InsertRows(@, handlers[h].toInsert)]
                  ELSE db,
            ok)

\* lines 378-393: the updates of Promise.all reach the store in any order
UpdateBudgets(h) ==
  /\ handlers[h].pc = "updateBudgets"
  /\ \E i \in 1..Len(handlers[h].toUpdate), ok \in BOOLEAN :
       Step(h,
            IF Len(handlers[h].toUpdate) > 1
              THEN [handlers[h] EXCEPT !.toUpdate = RemoveAt(@, i)]
              ELSE ToTasks(handlers[h]),
            IF ok THEN [db EXCEPT !.budget_tracker =
                          UpdateBudgetRow(@, handlers[h].toUpdate[i])]
                  ELSE db,
            ok)

\* lines 399-432
SelectTasks(h) ==
  /\ handlers[h].pc = "selectTasks"
  /\ \E ok \in BOOLEAN :
       Step(h,
            IF ok
              THEN ToWrites(handlers[h], "insertTasks", "insertTasks",
                     tasksToInsert(db.wedding_tasks, handlers[h].processedPayload.tasks),
                     <<>>, ToMessages(handlers[h]))
              ELSE ToMessages(handlers[h]),
            db, ok)

\* lines 434-446
InsertTasks(h) ==
  /\ handlers[h].pc = "insertTasks"
  /\ \E ok \in BOOLEAN :
       Step(h, ToMessages(handlers[h]),
            IF ok THEN [db EXCEPT !.wedding_tasks = InsertRows(@, handlers[h].toInsert)]
                  ELSE db,
            ok)

\* lines 449-503: the handler answers; the messages it saves first go to
\* chat_messages, a table no other step reads
SaveMessages(h) ==
  /\ pc = "idle"
  /\ handlers[h].pc = "saveMessages"
  /\ handlers' = [handlers EXCEPT ![h] = IdleHandler]
  /\ UNCHANGED <<db, applied, pipelineVars, sessionVars, limiterVars>>

ChatNext(overlap) ==
  \/ Next
  \/ \E h \in Handlers :
    \/ HandlerStart(h, overlap)
    \/ HandlerProcessed(h)
    \/ UpdateProfile(h)
    \/ SelectVendors(h)
    \/ InsertVendors(h)
    \/ UpdateVendors(h)
    \/ SelectBudgets(h)
    \/ InsertBudgets(h)
    \/ UpdateBudgets(h)
    \/ SelectTasks(h)
    \/ InsertTasks(h)
    \/ SaveMessages(h)

\* requests served one after another
ChatInTurn == ChatInit /\ [][ChatNext(FALSE)]_vars

\* requests that may overlap
ChatOverlapping == ChatInit /\ [][ChatNext(TRUE)]_vars
-----------------------------------------------------------------------------
(* processClaudePayload run a second time: on the envelope without one item   *)
(* of a section, and on the document made of its own result                  *)

Sections == {"vendors", "budget_items", "tasks"}

\* the sanitizer of a section drops the item and keeps nothing of it
IsRejected(section, item, leg) ==
  CASE section = "vendors" ->
         LET st == vendorCallback(FreshState, item, 0, leg)
         IN ~st.threw /\ st.sanitized = <<>>
    [] section = "budget_items" ->
         LET st == budgetCallback(FreshState, item, 0)
         IN ~st.threw /\ st.sanitized = <<>>
    [] section = "tasks" ->
         LET st == taskCallback(FreshState, item, 0)
         IN ~st.threw /\ st.sanitized = <<>>

\* the envelope with item i of a section taken out
WithoutItem(e, section, i) ==
  [e EXCEPT !.doc[section].items = RemoveAt(@, i)]

\* a sanitized record as an element of a parsed array
AsItem(blank, record) ==
  [key \in DOMAIN blank |-> IF key = "item" THEN Obj ELSE record[key]]

AsItems(blank, records) == [i \in 1..Len(records) |-> AsItem(blank, records[i])]

\* the document {wedding_info: r.weddingInfo, vendors: r.vendors,
\* budget_items: r.budgetItems, tasks: r.tasks}
DocumentOf(r) ==
  Doc("object", ObjectOf(r.weddingInfo),
      ArrayOf(AsItems(BlankVendor, r.vendors)),
      ArrayOf(AsItems(BlankBudgetItem, r.budgetItems)),
      ArrayOf(AsItems(BlankTask, r.tasks)))

RerunsInit ==
  /\ legacy \in BOOLEAN
  /\ input \in Inputs
  /\ pc = "start"
  /\ parsed = EmptyDoc
  /\ parserCalls = 0
  /\ idx = 0
  /\ seen = {}
  /\ acc = <<>>
  /\ warn = NoWarnings
  /\ parts = <<>>
  /\ result = EmptyResult
  /\ NoSessions /\ NoChat /\ NoLimiter

\* the first run has returned: the second one is called with envelope e
RunAgain(kind, section, i, e) ==
  /\ completed' = << [kind |-> kind, section |-> section, index |-> i,
                      input |-> input, result |-> result] >>
  /\ input' = e
  /\ pc' = "start"
  /\ parsed' = EmptyDoc
  /\ parserCalls' = 0
  /\ idx' = 0
  /\ seen' = {}
  /\ acc' = <<>>
  /\ warn' = NoWarnings
  /\ parts' = <<>>
  /\ result' = EmptyResult
  /\ UNCHANGED <<legacy, suspended, chatVars, limiterVars>>

\* a run on a parsed document has returned
HasParsed ==
  /\ pc = "done"
  /\ completed = <<>>
  /\ result.parseError = "null"
  /\ ~IsNoData(input) /\ ~IsOversized(input)

RunWithoutItem ==
  /\ HasParsed
  /\ \E section \in Sections :
       /\ input.doc[section].t = "array"
       /\ \E i \in 1..Len(input.doc[section].items) :
            RunAgain("without", section, i, WithoutItem(input, section, i))

RunOnResult ==
  /\ HasParsed
  /\ RunAgain("result", "all", 0, [input EXCEPT !.doc = DocumentOf(result)])

RerunsNext ==
  \/ Next
  \/ RunWithoutItem
  \/ RunOnResult

Reruns == RerunsInit /\ [][RerunsNext]_vars
-----------------------------------------------------------------------------
(* The in-memory rate limiter: requestCounts, checkRateLimit and the          *)
(* clean-up timer.  Time is Date.now() in milliseconds.                       *)

\* most windows the clock runs through
MaxWindows == 3
\* most milliseconds after a multiple of the window are told apart
MaxSkew == 2
\* most calls refused in one window
MaxDenied == 2

windowMs == 60 * 1000

RATE_LIMITS ==
  [ STRICT |-> [maxRequests |-> 10, windowMs |-> windowMs],
    MODERATE |-> [maxRequests |-> 30, windowMs |-> windowMs],
    RELAXED |-> [maxRequests |-> 60, windowMs |-> windowMs],
    PAYMENT |-> [maxRequests |-> 5, windowMs |-> windowMs] ]

\* what getClientIdentifier returns for the one client of the model
Identifiers == {"203.0.113.7"}

\* the readings of the clock: around every multiple of the window
Times ==
  { k * windowMs + j : k \in 0..MaxWindows, j \in -1..MaxSkew } \ {-1}

Reply(allowed, remaining, resetTime) ==
  [allowed |-> allowed, remaining |-> remaining, resetTime |-> resetTime]

\* requestCounts.set(identifier, data)
CountsSet(counts, identifier, data) ==
  [key \in DOMAIN counts \cup {identifier} |->
     IF key = identifier THEN data ELSE counts[key]]

\* lines 681-691: the window has passed
resetWindow(counts, identifier, options, t) ==
  [ counts |-> CountsSet(counts, identifier, [count |-> 1, resetTime |-> t + options.windowMs]),
    reply |-> Reply(TRUE, options.maxRequests - 1, t + options.windowMs) ]

\* lines 693-707: data.count++ and the reply for the new count
countRequest(counts, identifier, options, count, resetTime) ==
  [ counts |-> CountsSet(counts, identifier, [count |-> count, resetTime |-> resetTime]),
    reply |-> IF count > options.maxRequests
                THEN Reply(FALSE, 0, resetTime)
                ELSE Reply(TRUE, options.maxRequests - count, resetTime) ]

\* checkRateLimit that takes the window to have passed at resetTime
checkRateLimitResettingAt(counts, identifier, options, t) ==
  IF identifier \notin DOMAIN counts
    THEN resetWindow(counts, identifier, options, t)
  ELSE IF t >= counts[identifier].resetTime
    THEN resetWindow(counts, identifier, options, t)
  ELSE countRequest(counts, identifier, options,
                    counts[identifier].count + 1, counts[identifier].resetTime)

\* lines 660-707; t is Date.now()
checkRateLimit(counts, identifier, options, t) ==
  IF identifier \notin DOMAIN counts
    THEN resetWindow(counts, identifier, options, t)
  ELSE IF t > counts[identifier].resetTime
    THEN resetWindow(counts, identifier, options, t)
  ELSE countRequest(counts, identifier, options,
                    counts[identifier].count + 1, counts[identifier].resetTime)

\* the window a call at time t falls in: a call after the end of the window
\* (or the first call) opens one
WindowAt(w, options, t) ==
  IF w.calls = 0 \/ t > w.opened + options.windowMs
    THEN [w EXCEPT !.opened = t, !.calls = 1]
    ELSE [w EXCEPT !.calls = @ + 1]

NoReply == [allowed |-> FALSE, remaining |-> -1, resetTime |-> -1]

LimiterInit ==
  /\ requestCounts = <<>>
  /\ now = 0
  /\ returned = NoReply
  /\ window \in [preset : DOMAIN RATE_LIMITS, opened : {0}, calls : {0}]
  /\ legacy = FALSE
  /\ input = NonText("null")
  /\ pc = "idle"
  /\ parsed = EmptyDoc
  /\ parserCalls = 0
  /\ idx = 0
  /\ seen = {}
  /\ acc = <<>>
  /\ warn = NoWarnings
  /\ parts = <<>>
  /\ result = EmptyResult
  /\ NoSessions /\ NoChat

\* time passes
Tick ==
  /\ \E t \in Times : t > now /\ now' = t
  /\ UNCHANGED <<requestCounts, returned, window>>
  /\ UNCHANGED <<pipelineVars, sessionVars, chatVars>>

\* lines 767-788: a request of the client comes in; no more than MaxDenied
\* requests are followed once the window is full
RateLimitMiddleware ==
  /\ \E identifier \in Identifiers :
       /\ WindowAt(window, RATE_LIMITS[window.preset], now).calls
            <= RATE_LIMITS[window.preset].maxRequests + MaxDenied
       /\ requestCounts' =
            checkRateLimit(requestCounts, identifier, RATE_LIMITS[window.preset], now).counts
       /\ returned' =
            checkRateLimit(requestCounts, identifier, RATE_LIMITS[window.preset], now).reply
  /\ window' = WindowAt(window, RATE_LIMITS[window.preset], now)
  /\ UNCHANGED now
  /\ UNCHANGED <<pipelineVars, sessionVars, chatVars>>

\* lines 632-639: the timer deletes the entries whose window has passed
Cleanup ==
  /\ requestCounts' =
       [key \in {k \in DOMAIN requestCounts : ~(now - requestCounts[k].resetTime > 0)} |->
          requestCounts[key]]
  /\ UNCHANGED <<now, returned, window>>
  /\ UNCHANGED <<pipelineVars, sessionVars, chatVars>>

LimiterNext ==
  \/ Tick
  \/ RateLimitMiddleware
  \/ Cleanup

Limiter == LimiterInit /\ [][LimiterNext]_vars

-----------------------------------------------------------------------------
(* Closed-set outputs *)

\* a token of the closed set, or none (null)
InSetOrNone(value, closed) ==
  value = Null \/ (value.t = "string" /\ value.s \in closed)

\* C21: in every result each vendor's vendor_type is a member of the vendor
\* types (and every alias target lies in that set) and its status a vendor
\* status or none; each budget item's category is a canonical budget category;
\* each task's category, status and priority is a member of its closed set or
\* none.
C21_ClosedSetOutputs ==
  /\ pc = "done" =>
       /\ \A i \in 1..Len(result.vendors) :
            /\ result.vendors[i].vendor_type.t = "string"
            /\ result.vendors[i].vendor_type.s \in VENDOR_TYPES
            /\ InSetOrNone(result.vendors[i].status, VENDOR_STATUSES)
       /\ \A i \in 1..Len(result.budgetItems) :
            /\ result.budgetItems[i].category.t = "string"
            /\ result.budgetItems[i].category.s \in ValuesOf(BUDGET_CATEGORIES)
       /\ \A i \in 1..Len(result.tasks) :
            /\ InSetOrNone(result.tasks[i].category, ValuesOf(TASK_CATEGORIES))
            /\ InSetOrNone(result.tasks[i].status, TASK_STATUSES)
            /\ InSetOrNone(result.tasks[i].priority, TASK_PRIORITIES)
  /\ ValuesOf(VENDOR_TYPE_ALIASES) \subseteq VENDOR_TYPES

\* a vendor given as 'photo' with status 'Booked' has been emitted as a
\* 'photographer' that is 'booked'
C21_Witness ==
  /\ pc = "done"
  /\ input.doc = TestPayload
  /\ Len(result.vendors) = 1
  /\ result.vendors[1].vendor_type = Str(<<"p","h","o","t","o","g","r","a","p","h","e","r">>)
  /\ result.vendors[1].status = Str(<<"b","o","o","k","e","d">>)

-----------------------------------------------------------------------------
(* Named and typed vendors *)

\* the emitted vendors with the identity of input record j
EmittedFor(j) ==
  { k \in 1..Len(VendorOutputs) :
      EmittedVendorIdentity(VendorOutputs[k]) = VendorIdentity(VendorInputs[j]) }

\* C22: every input vendor that is an object with a non-empty trimmed name, a
\* resolvable type and an identity key not yet seen in the pass is emitted as
\* one fully-formed vendor, even when every other field is absent or invalid.
C22_NamedTypedVendorSurvives ==
  VendorsReturned =>
    \A j \in FirstVendors :
      /\ Cardinality(EmittedFor(j)) = 1
      /\ \A k \in EmittedFor(j) :
           /\ VendorOutputs[k].vendor_name = toTrimmedString(VendorInputs[j].vendor_name)
           /\ VendorOutputs[k].vendor_type = canonicalizeVendorType(VendorInputs[j].vendor_type)
           /\ DOMAIN VendorOutputs[k] = DOMAIN BlankVendor \ {"item"}

\* the same statement of the sanitizeVendors of wedding_extractors alone
C22_NamedTypedVendorSurvivesCurrent == ~legacy => C22_NamedTypedVendorSurvives

-----------------------------------------------------------------------------
(* The payload of the test script *)

IsIntegerValue(value, k) == value.t = "number" /\ value.n = 10 * k

\* the test payload is the text given and the size cap lets it through
IsTestCall == input.t = "string" /\ input.wellFormed /\ input.doc = TestPayload
                /\ ~IsOversized(input)

\* C24: a well-formed envelope with wedding_time "5:30pm",
\* expected_guest_count "150", total_budget "$25,000", one vendor of type
\* "photo", one budget item and two structurally identical tasks yields
\* parseError = null, wedding_time '17:30', guest count 150 and budget 25000 as
\* integers, exactly one vendor with vendor_type 'photographer', exactly one
\* budget item, and exactly one task.
C24_EndToEnd ==
  IsTestCall =>
    /\ pc # "threw"
    /\ pc = "done" =>
         /\ result.parseError = "null"
         /\ ProfileValue(result.weddingInfo, "wedding_time") = Str(<<"1","7",":","3","0">>)
         /\ IsIntegerValue(ProfileValue(result.weddingInfo, "expected_guest_count"), 150)
         /\ IsIntegerValue(ProfileValue(result.weddingInfo, "total_budget"), 25000)
         /\ Len(result.vendors) = 1
         /\ result.vendors[1].vendor_type = Str(<<"p","h","o","t","o","g","r","a","p","h","e","r">>)
         /\ Len(result.budgetItems) = 1
         /\ Len(result.tasks) = 1

\* the test payload has been sanitized and its second task reported as a
\* duplicate
C24_Witness ==
  /\ IsTestCall
  /\ pc = "done"
  /\ Len(SectionOf(parsed, "tasks").items) = 2
  /\ Len(result.tasks) = 1
  /\ \E i \in 1..Len(result.warnings) : result.warnings[i].code = "task_duplicate"

-----------------------------------------------------------------------------
(* Independent invocations *)

\* the vendor keys, budget categories and task keys an invocation has met
HasMetKeys(f) == f.pc \in {"vendorsLoop", "tasksLoop"} /\ f.seen # {}

\* C23: the result of processClaudePayload on an envelope depends only on
\* that envelope: whether invocations run one after another or interleaved,
\* each returns what a lone invocation returns on its envelope, and two
\* invocations on the same envelope return the same result.
C23_InvocationsIndependent ==
  /\ pc = "done" => result = processClaudePayload(input, legacy)
  /\ \A i \in 1..Len(completed) :
       completed[i].result = processClaudePayload(completed[i].input, legacy)
  /\ \A i, j \in 1..Len(completed) :
       completed[i].input = completed[j].input =>
         completed[i].result = completed[j].result

\* an invocation has returned the florist of its envelope while another,
\* which had already met the same vendor key, was waiting inside its loop
C23_Witness ==
  /\ Len(completed) >= 1
  /\ completed[Len(completed)].input.doc = SecondSharingDoc
  /\ Len(completed[Len(completed)].result.vendors) = 1
  /\ suspended.pc = "vendorsLoop"
  /\ suspended.input.doc = FirstSharingDoc
  /\ vendorKey(<<"f","l","o","r","i","s","t">>, <<"L","e","n","s">>) \in suspended.seen

-----------------------------------------------------------------------------
(* The chat handler and the stored tasks *)

\* (lowercased name, due date or none) of a stored task
StoredTaskIdentity(row) ==
  << toLowerCase(row.task_name.s), IF Truthy(row.due_date) THEN row.due_date.s ELSE <<>> >>

AllIdle == \A h \in Handlers : handlers[h].pc = "idle"

\* C25: over any sequence of handler invocations that run one after another
\* on the same wedding, a sanitized task whose identity key equals the key of
\* a task already stored is not inserted again: wedding_tasks never acquires
\* two rows with the same identity key.
C25_StoredTasksDistinct ==
  \A i, j \in 1..Len(db.wedding_tasks) :
    i # j => StoredTaskIdentity(db.wedding_tasks[i]) # StoredTaskIdentity(db.wedding_tasks[j])

\* a second request has brought ' send INVITES ' for 2025-05-01, which the
\* first had stored as 'Send invites', and has inserted nothing
C25_Witness ==
  /\ applied.requests = 2
  /\ ~applied.failed
  /\ \E h \in Handlers :
       /\ handlers[h].pc = "saveMessages"
       /\ handlers[h].processedPayload = SanitizedOf(SecondSharingDoc)
  /\ Len(db.wedding_tasks) = 1
  /\ db.wedding_tasks[1].task_name = Str(<<"S","e","n","d"," ","i","n","v","i","t","e","s">>)

\* the rows of wedding_tasks with the identity of row i
RowsLike(i) ==
  { j \in 1..Len(db.wedding_tasks) :
      StoredTaskIdentity(db.wedding_tasks[j]) = StoredTaskIdentity(db.wedding_tasks[i]) }

\* C26: when two chat-handler invocations for the same wedding overlap (each
\* first reads the stored tasks, then inserts its new ones), in every
\* interleaving a task with a given identity key is inserted into
\* wedding_tasks at most once.
C26_TaskInsertedOnce ==
  \A i \in 1..Len(db.wedding_tasks) : Cardinality(RowsLike(i)) <= 1

-----------------------------------------------------------------------------
(* The chat handler and the spent amounts *)

\* C27: when a sanitized budget item's category has a stored row, the handler
\* writes the stored spent_amount plus the item's (never a decrease), and when
\* the category is new it inserts the item's spent_amount (0 if none): after
\* any sequence of handler invocations with successful store operations the
\* stored spent_amount of a category is its initial value plus the sum of the
\* sanitized spent amounts applied to it.
C27_CumulativeSpend ==
  /\ [](AllIdle /\ ~applied.failed =>
          \A c \in Categories :
            StoredSpent(db.budget_tracker, c) = applied.initial[c] + applied.spent[c])
  /\ [][~applied.failed' =>
          \A c \in Categories :
            StoredSpent(db.budget_tracker', c) >= StoredSpent(db.budget_tracker, c)]_vars

-----------------------------------------------------------------------------
(* A second run of the pipeline *)

AfterRun(kind) ==
  /\ pc \in {"done", "threw"}
  /\ completed # <<>>
  /\ completed[1].kind = kind

\* the item the second run went without
ItemTakenOut ==
  completed[1].input.doc[completed[1].section].items[completed[1].index]

SameCollections(r, q) ==
  /\ r.vendors = q.vendors
  /\ r.budgetItems = q.budgetItems
  /\ r.tasks = q.tasks

\* C28: a rejected item never influences later items: for the vendor,
\* budget-item and task sanitizers, removing from the input list an item that
\* the sanitizer rejects leaves the sanitized collection unchanged (same kept
\* items, same field values, same order).
C28_RejectedItemsInert ==
  AfterRun("without") /\ IsRejected(completed[1].section, ItemTakenOut, legacy) =>
    pc = "done" /\ SameCollections(result, completed[1].result)

\* the same, of the sanitizers of session.js alone
C28_RejectedItemsInertCurrent == ~legacy => C28_RejectedItemsInert

\* C29: the pipeline is idempotent on its own output: run on the document
\* {wedding_info: r.weddingInfo, vendors: r.vendors, budget_items:
\* r.budgetItems, tasks: r.tasks} made of a result r, it returns the same four
\* collections and an empty warning list.
C29_OutputIsFixedPoint ==
  AfterRun("result") =>
    /\ pc = "done"
    /\ result.weddingInfo = completed[1].result.weddingInfo
    /\ SameCollections(result, completed[1].result)
    /\ result.warnings = NoWarnings

\* the wedding_time of the first result, if any, is a time of day
FirstTimeInRange ==
  \/ ProfileValue(completed[1].result.weddingInfo, "wedding_time") = Undefined
  \/ IsClockText(ProfileValue(completed[1].result.weddingInfo, "wedding_time").s)

\* the same, of results whose wedding_time, if any, is a time of day
C29_OutputIsFixedPointInRange ==
  (AfterRun("result") /\ FirstTimeInRange) => C29_OutputIsFixedPoint

-----------------------------------------------------------------------------
(* The rate limiter *)

\* C30: within a single window (from the call that opens it until its
\* resetTime) exactly the first maxRequests calls of checkRateLimit return
\* allowed = true and all further calls return allowed = false with
\* remaining = 0; the returned remaining is never negative, and the first call
\* made after resetTime is allowed and opens a new window with count 1.
C30_WindowBound ==
  window.calls > 0 =>
    /\ returned.allowed <=> window.calls <= RATE_LIMITS[window.preset].maxRequests
    /\ ~returned.allowed => returned.remaining = 0
    /\ returned.remaining >= 0
    /\ returned.resetTime = window.opened + RATE_LIMITS[window.preset].windowMs
    /\ window.calls = 1 =>
         \A identifier \in DOMAIN requestCounts :
           requestCounts[identifier].count = 1

\* the PAYMENT window opened at 0 has had six calls: the sixth, made at its
\* resetTime, is refused
C30_Witness ==
  /\ window.preset = "PAYMENT"
  /\ window.opened = 0
  /\ window.calls = 6
  /\ now = windowMs
  /\ returned = Reply(FALSE, 0, windowMs)

\* a call one millisecond after a resetTime opens a window
C30_NewWindow ==
  /\ window.preset = "PAYMENT"
  /\ window.opened = windowMs + 1
  /\ window.calls = 1
  /\ now = windowMs + 1
  /\ returned = Reply(TRUE, 4, 2 * windowMs + 1)
  /\ requestCounts["203.0.113.7"] = [count |-> 1, resetTime |-> 2 * windowMs + 1]

=============================================================================
